---- MODULE Spec2Model ----
(***************************************************************************)
(* Model of the as-dispatch forward service: the webhook handler           *)
(* (routes/callback.py handle_callback), the database-backed processing    *)
(* lock (repository.py ProcessingSessionRepository), the in-process dedup  *)
(* cache and the session store (session_manager.py SessionManager).        *)
(*                                                                         *)
(* Three specifications share the module's variables:                      *)
(*   SpecLock  repository-level calls on the processing_sessions table     *)
(*   SpecSess  sequential SessionManager calls on the user_sessions table  *)
(*   Spec      concurrent handle_callback executions                       *)
(* Every database transaction is one atomic step (serialisable store).     *)
(***************************************************************************)
EXTENDS Naturals, Integers, Sequences, FiniteSets, TLC

VARIABLES now, locks, acqLog, sessions, sessClock, sres, dedup, req,
          projects, pres, chatbots, txn

vars == <<now, locks, acqLog, sessions, sessClock, sres, dedup, req,
          projects, pres, chatbots, txn>>

(***************************************************************************)
(* Bounds of the model                                                     *)
(***************************************************************************)
MaxCalls == 3
MaxOps == 3
MaxReq == 2

(***************************************************************************)
(* Program constants                                                       *)
(***************************************************************************)
_DEDUP_TTL_SECONDS == 120
_DEDUP_CLEANUP_THRESHOLD == 500
PROCESSING_TIMEOUT_SECONDS == 300
SHORT_ID_LEN == 8

None == "None"

\* No call has returned yet.
NoResult == [op |-> "none"]

\* Absent values of sequence-valued fields (Python None or "").
NoId == <<>>

\* Sampled instants of the wall clock: two steps at the same instant are
\* within the dedup TTL, steps at 0 and 300 are beyond it, and a lock taken
\* at 0 has at 300 the age of the staleness threshold itself.
Times == {0, 300}

Users == {"u1"}
Chats == {"c1"}
Bots == {"b1", "b2"}
Callers == {1, 2}

(***************************************************************************)
(* Processing keys.  compute_processing_key returns the agent session id   *)
(* when one is known, else "{chat_id}:{bot_key}" for a group chat and      *)
(* "{user_id}:{bot_key}" for a direct chat.  A key is modelled as the      *)
(* tuple of its components.                                                *)
(***************************************************************************)
compute_processing_key(session_id, user_id, chat_id, bot_key, chat_type) ==
    IF session_id # NoId
    THEN <<"session", session_id>>
    ELSE IF chat_type = "group" THEN <<chat_id, bot_key>>
         ELSE <<user_id, bot_key>>

(***************************************************************************)
(* Session identifiers issued by the agent: strings of characters.  Sid1   *)
(* and Sid2 differ, Sid3 shares its first eight characters with Sid1.      *)
(***************************************************************************)
Sid1 == <<"a", "1", "a", "1", "a", "1", "a", "1", "x">>
Sid2 == <<"b", "2", "b", "2", "b", "2", "b", "2", "y">>
Sid3 == <<"a", "1", "a", "1", "a", "1", "a", "1", "z">>
SessionIds == {Sid1, Sid2}
AllSessionIds == {Sid1, Sid2, Sid3}

Keys == {<<u, "b1">> : u \in Users} \cup {<<"session", s>> : s \in SessionIds}

(***************************************************************************)
(* processing_sessions table: one row per session_key (UNIQUE).            *)
(* A row keeps started_at and the identity of the insert that created it.  *)
(***************************************************************************)
NoLock == [started_at |-> 0, owner |-> 0]

\* A lock row left by an execution that died before its finally, 60 s
\* before the first sampled instant: at 300 it is older than the threshold.
OrphanOwner == MaxReq + 1
OrphanLock == [started_at |-> 0 - 60, owner |-> OrphanOwner]

\* ProcessingSessionRepository.try_acquire: INSERT guarded by the UNIQUE
\* constraint on session_key; the insert's outcome is the lock result.
try_acquire_upsert(L, session_key, owner, t) ==
    [ok |-> TRUE,
     locks |-> [L EXCEPT ![session_key] = [started_at |-> t, owner |-> owner]]]

try_acquire(L, session_key, owner, t) ==
    IF L[session_key] = NoLock
    THEN [ok |-> TRUE,
          locks |-> [L EXCEPT ![session_key] = [started_at |-> t, owner |-> owner]]]
    ELSE [ok |-> FALSE, locks |-> L]

\* ProcessingSessionRepository.release: DELETE WHERE session_key = key.
release_noop(L, session_key) ==
    [ok |-> L[session_key] # NoLock, locks |-> L]

release(L, session_key) ==
    [ok |-> L[session_key] # NoLock,
     locks |-> [L EXCEPT ![session_key] = NoLock]]

\* ProcessingSessionRepository.get_lock_info: SELECT by session_key.
get_lock_info(L, session_key) == L[session_key]

\* ProcessingSessionRepository.force_release: same statement as release.
force_release_noop(L, session_key) ==
    [ok |-> L[session_key] # NoLock, locks |-> L]

force_release(L, session_key) == release(L, session_key)

\* ProcessingSessionRepository.cleanup_stale: DELETE WHERE started_at < cutoff.
cleanup_stale(L, t, timeout_seconds) ==
    [k \in DOMAIN L |->
        IF L[k] # NoLock /\ L[k].started_at < t - timeout_seconds
        THEN NoLock ELSE L[k]]

\* _compute_elapsed_seconds: now - started_at.
_compute_elapsed_seconds(started_at, t) == t - started_at

(***************************************************************************)
(* Initial values shared by the specifications                             *)
(***************************************************************************)
Reqs == 1..MaxReq

\* Local variables of one handle_callback execution, before it starts.
IdleReq ==
    [pc |-> "idle", outcome |-> None, msg_id |-> NoId, kind |-> None,
     arg |-> NoId, at |-> -1, session_id |-> NoId, key |-> NoId,
     acquired |-> FALSE, elapsed |-> -1, result_sid |-> NoId,
     forwards |-> 0, replies |-> 0, faulted |-> FALSE]

InitCommon ==
    /\ now = 0
    /\ locks = [k \in Keys |-> NoLock]
    /\ acqLog = [k \in Keys |-> <<>>]
    /\ sessions = <<>>
    /\ sessClock = 0
    /\ sres = NoResult
    /\ dedup = {}
    /\ req = [r \in Reqs |-> IdleReq]
    /\ projects = <<>>
    /\ pres = NoResult
    /\ chatbots = <<>>
    /\ txn = <<>>

\* time.time() / datetime.now(): wall-clock time passes between steps.
Tick ==
    /\ \E t \in Times : t > now
    /\ now' = CHOOSE t \in Times : t > now /\ \A u \in Times : u > now => t <= u
    /\ UNCHANGED <<locks, acqLog, sessions, sessClock, sres, dedup, req, projects, pres,
                   chatbots, txn>>

(***************************************************************************)
(* SpecLock: repository calls, as the repository's unit tests issue them.  *)
(* acqLog[k] records the results of the try_acquire calls made for k since *)
(* the last delete of k's row.                                             *)
(***************************************************************************)
LTryAcquire_one_lock(c, k) ==
    /\ Len(acqLog[k]) < MaxCalls
    /\ LET res == IF \E j \in Keys : locks[j] # NoLock
                  THEN [ok |-> FALSE, locks |-> locks]
                  ELSE try_acquire(locks, k, c, now)
       IN /\ locks' = res.locks
          /\ acqLog' = [acqLog EXCEPT ![k] = Append(@, res.ok)]
    /\ UNCHANGED <<now, sessions, sessClock, sres, dedup, req, projects, pres, chatbots, txn>>

LTryAcquire(c, k) ==
    /\ Len(acqLog[k]) < MaxCalls
    /\ LET res == try_acquire(locks, k, c, now)
       IN /\ locks' = res.locks
          /\ acqLog' = [acqLog EXCEPT ![k] = Append(@, res.ok)]
    /\ UNCHANGED <<now, sessions, sessClock, sres, dedup, req, projects, pres, chatbots, txn>>

LRelease(k) ==
    /\ locks' = release(locks, k).locks
    /\ acqLog' = [acqLog EXCEPT ![k] = <<>>]
    /\ UNCHANGED <<now, sessions, sessClock, sres, dedup, req, projects, pres, chatbots, txn>>

LForceRelease(k) ==
    /\ get_lock_info(locks, k) # NoLock
    /\ _compute_elapsed_seconds(get_lock_info(locks, k).started_at, now)
          > PROCESSING_TIMEOUT_SECONDS
    /\ locks' = force_release(locks, k).locks
    /\ acqLog' = [acqLog EXCEPT ![k] = <<>>]
    /\ UNCHANGED <<now, sessions, sessClock, sres, dedup, req, projects, pres, chatbots, txn>>

LCleanupStale ==
    /\ locks' = cleanup_stale(locks, now, PROCESSING_TIMEOUT_SECONDS)
    /\ locks' # locks
    /\ acqLog' = [k \in Keys |-> IF locks'[k] # locks[k] THEN <<>> ELSE acqLog[k]]
    /\ UNCHANGED <<now, sessions, sessClock, sres, dedup, req, projects, pres, chatbots, txn>>

NextLock ==
    \/ \E c \in Callers, k \in Keys : LTryAcquire(c, k)
    \/ \E k \in Keys : LRelease(k)
    \/ \E k \in Keys : LForceRelease(k)
    \/ LCleanupStale
    \/ Tick

\* The table starts empty or with the row of a dead execution for one key,
\* whose own try_acquire had returned true.
InitLock ==
    /\ now = 0
    /\ \E orphan \in BOOLEAN :
         locks = [k \in Keys |-> IF orphan /\ k = <<"u1", "b1">>
                                  THEN OrphanLock ELSE NoLock]
    /\ acqLog = [k \in Keys |-> IF locks[k] # NoLock THEN <<TRUE>> ELSE <<>>]
    /\ sessions = <<>>
    /\ sessClock = 0
    /\ sres = NoResult
    /\ dedup = {}
    /\ req = [r \in Reqs |-> IdleReq]
    /\ projects = <<>>
    /\ pres = NoResult
    /\ chatbots = <<>>
    /\ txn = <<>>

SpecLock == InitLock /\ [][NextLock]_vars

(***************************************************************************)
(* C5: of the try_acquire calls made for one key with no release in        *)
(* between (concurrent calls are serialised by the UNIQUE constraint),     *)
(* exactly one returns true.                                               *)
(***************************************************************************)
TrueCount(log) == Cardinality({i \in 1..Len(log) : log[i]})

C5_ExactlyOneAcquires ==
    \A k \in Keys : Len(acqLog[k]) >= 1 => TrueCount(acqLog[k]) = 1

C5_Witness ==
    \E k \in Keys : Len(acqLog[k]) >= 2 /\ acqLog[k][1] /\ ~acqLog[k][2]

(***************************************************************************)
(* user_sessions table: a sequence of rows, the row id being the index.    *)
(* updated_at is a logical timestamp taken from sessClock.                 *)
(***************************************************************************)
Min(a, b) == IF a < b THEN a ELSE b

\* record_session: short_id = session_id[:8] if len(session_id) >= 8 else session_id
ShortIdOf(session_id) == SubSeq(session_id, 1, Min(SHORT_ID_LEN, Len(session_id)))

\* UserSession.session_id.like(f"{short_id}%")
IsPrefix(p, s) == Len(p) <= Len(s) /\ SubSeq(s, 1, Len(p)) = p

\* WHERE user_id = .. AND chat_id = .. AND bot_key = .. (bot_key optional)
MatchRows(S, user_id, chat_id, bot_key) ==
    {i \in DOMAIN S : /\ S[i].user_id = user_id
                      /\ S[i].chat_id = chat_id
                      /\ (bot_key # None => S[i].bot_key = bot_key)}

ActiveRows(S, user_id, chat_id, bot_key) ==
    {i \in MatchRows(S, user_id, chat_id, bot_key) : S[i].is_active}

\* UPDATE user_sessions SET is_active = False WHERE <rows>; the column's
\* onupdate stamps updated_at.
Deactivate(S, rows, clk) ==
    [i \in DOMAIN S |->
        IF i \in rows THEN [S[i] EXCEPT !.is_active = FALSE, !.updated_at = clk]
        ELSE S[i]]

\* SessionManager.get_active_session: the active row with the greatest
\* updated_at (ORDER BY updated_at DESC LIMIT 1); 0 when there is none.
get_active_session(S, user_id, chat_id, bot_key) ==
    LET act == ActiveRows(S, user_id, chat_id, bot_key)
    IN IF act = {} THEN 0
       ELSE CHOOSE i \in act : \A j \in act :
                \/ S[j].updated_at < S[i].updated_at
                \/ (S[j].updated_at = S[i].updated_at /\ j <= i)

\* A message text: tag stands for its first LAST_MESSAGE_LEN characters, len
\* is its length.
LAST_MESSAGE_LEN == 200
Messages == {[tag |-> "a", len |-> 5], [tag |-> "b", len |-> 250]}

\* truncated_message = last_message[:200] if last_message else ""
truncated_message(last_message) ==
    [last_message EXCEPT !.len = Min(@, LAST_MESSAGE_LEN)]

\* SessionManager.record_session.  ret is the row id, or -1 when
\* scalar_one_or_none raises MultipleResultsFound.
record_session_always_insert(S, clk, user_id, chat_id, bot_key, session_id, last_message) ==
    [ret |-> Len(S) + 1,
     sessions |-> Append(
         Deactivate(S, ActiveRows(S, user_id, chat_id, bot_key), clk),
         [user_id |-> user_id, chat_id |-> chat_id, bot_key |-> bot_key,
          session_id |-> session_id, short_id |-> ShortIdOf(session_id),
          last_message |-> truncated_message(last_message),
          message_count |-> 1, is_active |-> TRUE, updated_at |-> clk])]

record_session(S, clk, user_id, chat_id, bot_key, session_id, last_message) ==
    LET found == {i \in MatchRows(S, user_id, chat_id, bot_key) :
                      S[i].session_id = session_id}
    IN IF Cardinality(found) > 1 THEN [ret |-> -1, sessions |-> S]
       ELSE IF found # {}
       THEN LET e == CHOOSE i \in found : TRUE
            IN [ret |-> e,
                sessions |-> [S EXCEPT ![e] =
                    [@ EXCEPT !.last_message = truncated_message(last_message),
                              !.message_count = @ + 1,
                              !.is_active = TRUE,
                              !.updated_at = clk]]]
       ELSE [ret |-> Len(S) + 1,
             sessions |-> Append(
                 Deactivate(S, ActiveRows(S, user_id, chat_id, bot_key), clk),
                 [user_id |-> user_id, chat_id |-> chat_id, bot_key |-> bot_key,
                  session_id |-> session_id, short_id |-> ShortIdOf(session_id),
                  last_message |-> truncated_message(last_message),
                  message_count |-> 1, is_active |-> TRUE, updated_at |-> clk])]

\* SessionManager.reset_session: ret is rowcount > 0.
reset_session_no_update(S, clk, user_id, chat_id, bot_key) ==
    [ret |-> ActiveRows(S, user_id, chat_id, bot_key) # {}, sessions |-> S]

reset_session(S, clk, user_id, chat_id, bot_key) ==
    LET act == ActiveRows(S, user_id, chat_id, bot_key)
    IN [ret |-> act # {}, sessions |-> Deactivate(S, act, clk)]

\* SessionManager.change_session.  ret is the target row id, 0 when no row
\* matches, -1 when scalar_one_or_none raises MultipleResultsFound.
change_session_keep_siblings(S, clk, user_id, chat_id, short_id, bot_key) ==
    LET base == MatchRows(S, user_id, chat_id, bot_key)
        exact == {i \in base : S[i].short_id = short_id}
        like == {i \in base : IsPrefix(short_id, S[i].session_id)}
        hit == IF exact # {} THEN exact ELSE like
    IN IF Cardinality(hit) > 1 THEN [ret |-> -1, sessions |-> S]
       ELSE IF hit = {} THEN [ret |-> 0, sessions |-> S]
       ELSE LET t == CHOOSE i \in hit : TRUE
            IN [ret |-> t,
                sessions |-> [S EXCEPT ![t] =
                    [@ EXCEPT !.is_active = TRUE, !.updated_at = clk]]]

change_session(S, clk, user_id, chat_id, short_id, bot_key) ==
    LET base == MatchRows(S, user_id, chat_id, bot_key)
        exact == {i \in base : S[i].short_id = short_id}
        like == {i \in base : IsPrefix(short_id, S[i].session_id)}
        hit == IF exact # {} THEN exact ELSE like
    IN IF Cardinality(hit) > 1 THEN [ret |-> -1, sessions |-> S]
       ELSE IF hit = {} THEN [ret |-> 0, sessions |-> S]
       ELSE LET t == CHOOSE i \in hit : TRUE
                sib == ActiveRows(S, user_id, chat_id, bot_key) \ {t}
            IN [ret |-> t,
                sessions |-> [Deactivate(S, sib, clk) EXCEPT ![t] =
                    [@ EXCEPT !.is_active = TRUE, !.updated_at = clk]]]

\* SessionManager.list_sessions: rows of the (user, chat[, bot]); the order
\* and the limit are not modelled, the result is the set of row ids.
list_sessions(S, user_id, chat_id, bot_key) == MatchRows(S, user_id, chat_id, bot_key)

(***************************************************************************)
(* SpecSess: SessionManager calls issued one after another.                *)
(***************************************************************************)
ShortArgs == {SubSeq(s, 1, n) : s \in AllSessionIds, n \in {6, SHORT_ID_LEN}}

SRecord(u, c, b, sid, msg) ==
    /\ sessClock < MaxOps
    /\ LET res == record_session(sessions, sessClock + 1, u, c, b, sid, msg)
       IN /\ sessions' = res.sessions
          /\ sres' = [op |-> "record", ret |-> res.ret]
    /\ sessClock' = sessClock + 1
    /\ UNCHANGED <<now, locks, acqLog, dedup, req, projects, pres, chatbots, txn>>

SReset(u, c, b) ==
    /\ sessClock < MaxOps
    /\ LET res == reset_session(sessions, sessClock + 1, u, c, b)
       IN /\ sessions' = res.sessions
          /\ sres' = [op |-> "reset", ret |-> res.ret]
    /\ sessClock' = sessClock + 1
    /\ UNCHANGED <<now, locks, acqLog, dedup, req, projects, pres, chatbots, txn>>

SChange(u, c, short, b) ==
    /\ sessClock < MaxOps
    /\ LET res == change_session(sessions, sessClock + 1, u, c, short, b)
       IN /\ sessions' = res.sessions
          /\ sres' = [op |-> "change", ret |-> res.ret]
    /\ sessClock' = sessClock + 1
    /\ UNCHANGED <<now, locks, acqLog, dedup, req, projects, pres, chatbots, txn>>

SGetActive(u, c, b) ==
    /\ sres' = [op |-> "get_active", ret |-> get_active_session(sessions, u, c, b)]
    /\ UNCHANGED <<now, locks, acqLog, sessions, sessClock, dedup, req, projects, pres,
                   chatbots, txn>>

NextSess ==
    \/ \E u \in Users, c \in Chats, b \in Bots, sid \in AllSessionIds,
          msg \in Messages : SRecord(u, c, b, sid, msg)
    \/ \E u \in Users, c \in Chats, b \in Bots : SReset(u, c, b)
    \/ \E u \in Users, c \in Chats, b \in Bots \cup {None}, short \in ShortArgs :
          SChange(u, c, short, b)
    \/ \E u \in Users, c \in Chats, b \in Bots : SGetActive(u, c, b)

SpecSess == InitCommon /\ [][NextSess]_vars

(***************************************************************************)
(* C2: after any sequence of record, reset and changeTo calls every        *)
(* (user_id, chat_id, bot_key) has at most one row with is_active = true.  *)
(***************************************************************************)
C2_AtMostOneActive ==
    \A u \in Users, c \in Chats, b \in Bots :
        Cardinality(ActiveRows(sessions, u, c, b)) <= 1

(***************************************************************************)
(* Dedup cache (_dedup_cache): a set of <<key, expiry>> pairs, at most one *)
(* per key.                                                                *)
(***************************************************************************)
\* _make_dedup_key: the platform message id when the payload carries one,
\* else a hash of bot, chat and the stripped content.
_make_dedup_key(bot_key, chat_id, content, msg_id) ==
    IF msg_id # NoId THEN <<"id", bot_key, chat_id, msg_id>>
    ELSE <<"hash", bot_key, chat_id, <<content>>>>

\* _is_duplicate_message: true while the key's entry has not expired; an
\* expired entry is deleted.
_is_duplicate_message_never(D, dedup_key, t) == [dup |-> FALSE, cache |-> D]

_is_duplicate_message(D, dedup_key, t) ==
    LET hit == {e \in D : e[1] = dedup_key}
    IN IF hit = {} THEN [dup |-> FALSE, cache |-> D]
       ELSE IF \E e \in hit : e[2] > t THEN [dup |-> TRUE, cache |-> D]
       ELSE [dup |-> FALSE, cache |-> D \ hit]

\* _mark_message_processed: store now + TTL; expired entries are evicted
\* once the cache holds _DEDUP_CLEANUP_THRESHOLD entries.
_mark_message_processed(D, dedup_key, t) ==
    LET D1 == {e \in D : e[1] # dedup_key} \cup {<<dedup_key, t + _DEDUP_TTL_SECONDS>>}
    IN IF Cardinality(D1) >= _DEDUP_CLEANUP_THRESHOLD
       THEN {e \in D1 : e[2] > t} ELSE D1

(***************************************************************************)
(* Spec: concurrent executions of handle_callback in one process.  All     *)
(* deliveries come from user "u1" in the direct chat "c1" of bot "b1".     *)
(* A step of a request runs from one await on shared state to the next.    *)
(***************************************************************************)
TheUser == "u1"
TheChat == "c1"
TheBot == "b1"
TheChatType == "single"

\* get_effective_user: the chat id in a group chat, else the user id.
get_effective_user(user_id, chat_id, chat_type) ==
    IF chat_type = "group" THEN chat_id ELSE user_id

EffUser == get_effective_user(TheUser, TheChat, TheChatType)

Kinds == {"plain", "list", "reset", "quoted"}
BotEnvs == {"no_bot", "denied", "ok"}
Targets == {"url", "nothing"}
AgentOutcomes == {"ok", "agent_error", "config_error", "exception"}
HandlerShortArgs == {ShortIdOf(Sid1)}

(***************************************************************************)
(* Texts are sequences of one-character strings; "ldquo" stands for the    *)
(* left double quotation mark U+201C that opens a quoted message.          *)
(***************************************************************************)
HexChars == {"a", "b", "c", "d", "e", "f",
             "0", "1", "2", "3", "4", "5", "6", "7", "8", "9"}
Whitespace == {" ", "\n"}
NoName == <<>>

RECURSIVE Digits(_)
\* str(n) for a natural number n.
Digits(n) ==
    LET d == <<"0", "1", "2", "3", "4", "5", "6", "7", "8", "9">>[(n % 10) + 1]
    IN IF n < 10 THEN <<d>> ELSE Digits(n \div 10) \o <<d>>

\* message_splitter.create_message_header
create_message_header(short_id, project_name, part_number, total_parts) ==
    LET base_header ==
            IF project_name # NoName
            THEN <<"[", "#">> \o short_id \o <<" ">> \o project_name \o <<"]">>
            ELSE <<"[", "#">> \o short_id \o <<"]">>
    IN IF short_id = <<>> THEN <<>>
       ELSE IF total_parts > 1
       THEN base_header \o <<" ", "(">> \o Digits(part_number) \o <<"/">>
                \o Digits(total_parts) \o <<")">>
       ELSE base_header

\* SHORT_ID_PATTERN = \[#([a-f0-9]{6,8})(?:\s+\S+)?\] matched at position i
\* with an id of n characters.
ShortIdPatternAt(s, i, n) ==
    LET j == i + 2 + n
    IN /\ j <= Len(s)
       /\ s[i] = "[" /\ s[i + 1] = "#"
       /\ \A k \in 1..n : s[i + 1 + k] \in HexChars
       /\ \/ s[j] = "]"
          \/ \E w, k \in 1..Len(s) :
                /\ j + w + k <= Len(s)
                /\ \A x \in j..(j + w - 1) : s[x] \in Whitespace
                /\ \A x \in (j + w)..(j + w + k - 1) : s[x] \notin Whitespace
                /\ s[j + w + k] = "]"

\* SHORT_ID_PATTERN.search(s): group 1 of the leftmost match, the id taken
\* as long as the match allows; NoId without a match.
SHORT_ID_PATTERN_search(s) ==
    LET hits == {i \in 1..Len(s) : \E n \in 6..8 : ShortIdPatternAt(s, i, n)}
    IN IF hits = {} THEN NoId
       ELSE LET i == CHOOSE x \in hits : \A y \in hits : x <= y
                n == CHOOSE m \in 6..8 :
                        /\ ShortIdPatternAt(s, i, m)
                        /\ \A k \in 6..8 : ShortIdPatternAt(s, i, k) => k <= m
            IN SubSeq(s, i + 2, i + 1 + n)

\* content.strip_quote_content applied to a text whose part before the
\* "------" separator is quoted_part: the quoted short id, NoId for None.
strip_quote_content(quoted_part) ==
    IF quoted_part = <<>> \/ quoted_part[1] # "ldquo" THEN NoId
    ELSE SHORT_ID_PATTERN_search(quoted_part)

\* The quoted part of a reply to a message the service sent under header:
\* the opening mark, the bot's name, the header line, the start of the text.
QuotedPart(header) == <<"ldquo", "B", ":", "\n">> \o header \o <<"\n", "h", "i">>

\* Quoted messages of a project with a one-word name.
HandlerProjectNames == {<<"p", "1">>}

QuotedParts(names) ==
    {QuotedPart(create_message_header(sh, pn, 1, 1)) :
        sh \in HandlerShortArgs, pn \in names}

HandlerQuotedParts == QuotedParts(HandlerProjectNames)

\* re.IGNORECASE, for the capital letters the texts below use.
Lower(c) ==
    CASE c = "C" -> "c" [] c = "R" -> "r" [] c = "S" -> "s" [] OTHER -> c

LowerText(s) == [i \in 1..Len(s) |-> Lower(s[i])]

\* str.strip()
strip(s) ==
    LET keep == {i \in 1..Len(s) : s[i] \notin Whitespace}
    IN IF keep = {} THEN <<>>
       ELSE SubSeq(s, CHOOSE i \in keep : \A j \in keep : i <= j,
                      CHOOSE i \in keep : \A j \in keep : j <= i)

\* SLASH_COMMANDS entries of the form ^/(word|word)\s*$, in the order of the
\* dict; "change" and "bot", which take arguments, are not of this form.
SimpleCommands ==
    <<[cmd |-> "list", words |-> {<<"s", "e", "s", "s">>, <<"s">>}],
      [cmd |-> "reset", words |-> {<<"r", "e", "s", "e", "t">>, <<"r">>}],
      [cmd |-> "ping", words |-> {<<"p", "i", "n", "g">>, <<"p">>}],
      [cmd |-> "status", words |-> {<<"s", "t", "a", "t", "u", "s">>, <<"s", "t">>}],
      [cmd |-> "help", words |-> {<<"h", "e", "l", "p">>, <<"h">>}],
      [cmd |-> "bots", words |-> {<<"b", "o", "t", "s">>}],
      [cmd |-> "pending", words |-> {<<"p", "e", "n", "d", "i", "n", "g">>}],
      [cmd |-> "recent", words |-> {<<"r", "e", "c", "e", "n", "t">>}],
      [cmd |-> "errors", words |-> {<<"e", "r", "r", "o", "r", "s">>}],
      [cmd |-> "health", words |-> {<<"h", "e", "a", "l", "t", "h">>}]>>

\* ^/(word|..)\s*$ on a text
SimpleMatch(m, words) ==
    \E w \in words :
        /\ Len(m) >= 1 + Len(w)
        /\ LowerText(SubSeq(m, 1, 1 + Len(w))) = <<"/">> \o w
        /\ \A i \in (2 + Len(w))..Len(m) : m[i] \in Whitespace

\* ^/(change|c)\s+([a-f0-9]{6,8})(?:\s+(.+))?$ with the command word w, k
\* blanks, an id of n characters and, when x > 0, x blanks before the rest.
ChangeMatchAt(m, w, k, n, x) ==
    LET idStart == 2 + Len(w) + k
        idEnd == idStart + n - 1
    IN /\ idEnd <= Len(m)
       /\ LowerText(SubSeq(m, 1, 1 + Len(w))) = <<"/">> \o w
       /\ \A i \in (2 + Len(w))..(idStart - 1) : m[i] \in Whitespace
       /\ \A i \in idStart..idEnd : Lower(m[i]) \in HexChars
       /\ IF x = 0 THEN idEnd = Len(m)
          ELSE /\ idEnd + x < Len(m)
               /\ \A i \in (idEnd + 1)..(idEnd + x) : m[i] \in Whitespace

NoCommand == [cmd |-> "none", arg |-> <<>>, extra |-> <<>>]

\* SessionManager.parse_slash_command: NoCommand stands for None.
parse_slash_command(message) ==
    LET m == strip(message)
        simple == {i \in DOMAIN SimpleCommands : SimpleMatch(m, SimpleCommands[i].words)}
        ChangeWords == {<<"c", "h", "a", "n", "g", "e">>, <<"c">>}
        change == {c \in [w : ChangeWords, k : 1..Len(m), n : 6..8, x : 0..Len(m)] :
                      ChangeMatchAt(m, c.w, c.k, c.n, c.x)}
    IN IF change # {}
       THEN LET c == CHOOSE c \in change : \A d \in change :
                         \/ d.k < c.k
                         \/ d.k = c.k /\ d.n < c.n
                         \/ d.k = c.k /\ d.n = c.n /\ d.x <= c.x
                idStart == 2 + Len(c.w) + c.k
            IN [cmd |-> "change",
                arg |-> SubSeq(m, idStart, idStart + c.n - 1),
                extra |-> IF c.x = 0 THEN <<>>
                          ELSE strip(SubSeq(m, idStart + c.n + c.x, Len(m)))]
       ELSE IF simple # {}
       THEN [cmd |-> SimpleCommands[CHOOSE i \in simple : TRUE].cmd,
             arg |-> <<>>, extra |-> <<>>]
       ELSE NoCommand

\* The branch of handle_callback a parsed text takes: a text that is no
\* command is a plain message.
KindOfText(text) ==
    LET c == parse_slash_command(text)
    IN IF c = NoCommand THEN "plain"
       ELSE IF c.cmd = "change" THEN
           IF c.extra # <<>> THEN "change_msg" ELSE "change"
       ELSE c.cmd

\* The payload of a text message.
TextPayload(text) ==
    LET c == parse_slash_command(text)
    IN [kind |-> KindOfText(text),
        arg |-> IF c.cmd = "change" THEN c.arg ELSE text]

\* Payloads of Spec: a plain message, /s, /r, and a quoted reply.
HandlerPayloads ==
    {[kind |-> k, arg |-> NoId] : k \in Kinds \ {"quoted"}}
        \cup {[kind |-> "quoted", arg |-> a] : a \in HandlerQuotedParts}

\* The text every request carries (content or "(image)").
TheContent == [tag |-> "a", len |-> 5]

SessionRow(sid, active, clk) ==
    [user_id |-> EffUser, chat_id |-> TheChat, bot_key |-> TheBot,
     session_id |-> sid, short_id |-> ShortIdOf(sid),
     last_message |-> TheContent,
     message_count |-> 1, is_active |-> active, updated_at |-> clk]

\* Session tables the service can start from: empty, or two earlier
\* conversations of which the later one is active.
InitTables == {<<>>, <<SessionRow(Sid1, FALSE, 2), SessionRow(Sid2, TRUE, 2)>>}

Init ==
    /\ now = 0
    /\ sessions \in InitTables
    /\ \E orphan \in BOOLEAN :
         LET a == get_active_session(sessions, EffUser, TheChat, TheBot)
             k == compute_processing_key(
                      IF a = 0 THEN NoId ELSE sessions[a].session_id,
                      TheUser, TheChat, TheBot, TheChatType)
         IN locks = [x \in Keys |-> IF orphan /\ x = k THEN OrphanLock ELSE NoLock]
    /\ acqLog = [k \in Keys |-> <<>>]
    /\ sessClock = 2
    /\ sres = NoResult
    /\ dedup = {}
    /\ req = [r \in Reqs |-> IdleReq]
    /\ projects = <<>>
    /\ pres = NoResult
    /\ chatbots = <<>>
    /\ txn = <<>>

\* A return statement of handle_callback after n send_reply calls; the
\* execution's local variables go away.
Finish(rec, outcome, n) ==
    [rec EXCEPT !.pc = "done", !.outcome = outcome, !.replies = @ + n,
                !.session_id = NoId, !.key = NoId, !.acquired = FALSE,
                !.elapsed = -1, !.result_sid = NoId]

\* The payloads request r can carry: a new message, or the platform's
\* re-delivery of a message delivered before.
Deliveries(r, payloads) ==
    {[msg_id |-> <<"m", r>>, kind |-> p.kind, arg |-> p.arg] : p \in payloads}
    \cup {[msg_id |-> req[q].msg_id, kind |-> req[q].kind, arg |-> req[q].arg] :
        q \in {q \in Reqs : req[q].pc # "idle"}}

\* handle_callback lines 564-566: the key of the request's lock.
processing_key_user_only(current_session_id, from_user_id, chat_id, bot_key, chat_type) ==
    compute_processing_key(NoId, from_user_id, chat_id, bot_key, "single")

processing_key(current_session_id, from_user_id, chat_id, bot_key, chat_type) ==
    compute_processing_key(current_session_id, from_user_id, chat_id, bot_key,
                           chat_type)

\* handle_callback lines 528-566: dedup check and mark, then the check for
\* a forward target, for a request whose current_session_id is sid.  With
\* no bot URL and no project the handler reaches get_user_help(), a name
\* bound only by the import on line 703: UnboundLocalError, caught on line
\* 805, which returns without a reply.
DedupAndTarget(r, rec0, sid) ==
    LET rec == [rec0 EXCEPT !.session_id = sid, !.at = now]
        dkey == _make_dedup_key(TheBot, TheChat, rec.kind, rec.msg_id)
        chk == _is_duplicate_message(dedup, dkey, now)
    IN IF chk.dup
       THEN /\ dedup' = chk.cache
            /\ req' = [req EXCEPT ![r] = Finish(rec, "duplicate", 0)]
       ELSE /\ dedup' = _mark_message_processed(chk.cache, dkey, now)
            /\ \E tgt \in Targets :
                 IF tgt = "nothing"
                 THEN req' = [req EXCEPT ![r] = Finish(rec, "no_target", 0)]
                 ELSE req' = [req EXCEPT ![r] = [rec EXCEPT
                        !.pc = "lock",
                        !.key = processing_key(sid, TheUser, TheChat,
                                               TheBot, TheChatType)]]

\* handle_callback lines 522-566: read the active session, then dedup.
ActiveStep(r, rec) ==
    LET a == get_active_session(sessions, EffUser, TheChat, TheBot)
    IN DedupAndTarget(r, rec, IF a = 0 THEN NoId ELSE sessions[a].session_id)

\* handle_callback lines 272-533 for delivery d of request r, after the bot
\* lookup and access control (lines 182-270) have come out as env; with
\* "ok" the bot has a forward target or an owner.  The bot command is
\* "/bot info" and the project command "/lp", which read and reply.
HandleDelivery(r, d, env) ==
   LET rec == [IdleReq EXCEPT !.msg_id = d.msg_id, !.kind = d.kind,
                             !.arg = d.arg]
       end(outcome, n) == Finish([rec EXCEPT !.at = now], outcome, n)
       clk == sessClock + 1
       rs == reset_session(sessions, clk, EffUser, TheChat, TheBot)
       quoted_short_id == strip_quote_content(d.arg)
       ch == change_session(sessions, clk, EffUser, TheChat,
                            quoted_short_id, TheBot)
       cmd == change_session(sessions, clk, EffUser, TheChat, d.arg, TheBot)
   IN
   IF env = "no_bot" THEN
       /\ req' = [req EXCEPT ![r] = end("no_bot", 1)]
       /\ UNCHANGED <<sessions, sessClock, dedup>>
   ELSE IF env = "denied" THEN
       /\ req' = [req EXCEPT ![r] = end("access_denied", 1)]
       /\ UNCHANGED <<sessions, sessClock, dedup>>
   ELSE IF d.kind = "bot_command" THEN
       \* lines 286-297
       /\ req' = [req EXCEPT ![r] = end("bot_command", 1)]
       /\ UNCHANGED <<sessions, sessClock, dedup>>
   ELSE IF d.kind = "project_command" THEN
       \* lines 310-320
       /\ req' = [req EXCEPT ![r] = end("project_command", 1)]
       /\ UNCHANGED <<sessions, sessClock, dedup>>
   ELSE IF d.kind = "list" THEN
       /\ req' = [req EXCEPT ![r] = end("command", 1)]
       /\ UNCHANGED <<sessions, sessClock, dedup>>
   ELSE IF d.kind = "reset" THEN
       /\ req' = [req EXCEPT ![r] = end("command", 1)]
       /\ sessions' = rs.sessions
       /\ sessClock' = clk
       /\ UNCHANGED dedup
   ELSE IF d.kind = "change_msg" THEN
       \* "/c <id> text": lines 382-398, then on to line 522
       IF cmd.ret = -1 THEN
           /\ req' = [req EXCEPT ![r] = end("switch_error", 0)]
           /\ UNCHANGED <<sessions, sessClock, dedup>>
       ELSE IF cmd.ret = 0 THEN
           /\ req' = [req EXCEPT ![r] = end("command", 1)]
           /\ UNCHANGED <<sessions, sessClock, dedup>>
       ELSE
           /\ req' = [req EXCEPT ![r] = [rec EXCEPT !.pc = "active"]]
           /\ sessions' = cmd.sessions
           /\ sessClock' = clk
           /\ UNCHANGED dedup
   ELSE IF d.kind = "quoted" /\ quoted_short_id # NoId THEN
       IF ch.ret = -1 THEN
           /\ req' = [req EXCEPT ![r] = end("switch_error", 0)]
           /\ UNCHANGED <<sessions, sessClock, dedup>>
       ELSE IF ch.ret = 0 THEN
           /\ req' = [req EXCEPT ![r] = [rec EXCEPT !.pc = "active"]]
           /\ UNCHANGED <<sessions, sessClock, dedup>>
       ELSE
           /\ sessions' = ch.sessions
           /\ sessClock' = clk
           /\ DedupAndTarget(r, rec, ch.sessions[ch.ret].session_id)
   ELSE
       /\ ActiveStep(r, rec)
       /\ UNCHANGED <<sessions, sessClock>>

\* handle_callback lines 139-533, up to and including the first call that
\* reads or writes the session store: bot lookup, access control, slash
\* commands, the quoted-reply switch; a plain message goes on to the dedup
\* check.  Requests are numbered in order of arrival.
ReceiveFrom(r, payloads) ==
    /\ req[r].pc = "idle"
    /\ \A q \in Reqs : q < r => req[q].pc # "idle"
    /\ \E d \in Deliveries(r, payloads), env \in BotEnvs :
        /\ env # "ok" => d.kind = "plain"
        /\ HandleDelivery(r, d, env)
    /\ UNCHANGED <<now, locks, acqLog, sres, projects, pres, chatbots, txn>>

Receive(r) == ReceiveFrom(r, HandlerPayloads)

\* handle_callback lines 522-566 after a quoted reply that matched no
\* session of the user, or after "/c <id> text" has switched the session.
Active(r) ==
    /\ req[r].pc = "active"
    /\ ActiveStep(r, req[r])
    /\ UNCHANGED <<now, locks, acqLog, sessions, sessClock, sres, projects, pres,
                   chatbots, txn>>

\* processing_acquired = True: the request goes on to
\* forward_to_agent_with_user_project.
StartForward(rec) ==
    [rec EXCEPT !.pc = "inflight", !.acquired = TRUE, !.forwards = @ + 1]

\* handle_callback lines 573-586: first try_acquire.
TryAcquire(r) ==
    /\ req[r].pc = "lock"
    /\ LET res == try_acquire(locks, req[r].key, r, now)
       IN /\ locks' = res.locks
          /\ req' = [req EXCEPT ![r] =
                IF res.ok THEN [StartForward(req[r]) EXCEPT !.faulted = FALSE]
                ELSE [req[r] EXCEPT !.pc = "lockinfo"]]
    /\ UNCHANGED <<now, acqLog, sessions, sessClock, sres, dedup, projects, pres,
                   chatbots, txn>>

\* handle_callback line 593: elapsed > PROCESSING_TIMEOUT_SECONDS.
IsStaleInclusive(elapsed) == elapsed >= PROCESSING_TIMEOUT_SECONDS

IsStale(elapsed) == elapsed > PROCESSING_TIMEOUT_SECONDS

\* handle_callback lines 589-593 and 611-624: read the lock that blocked
\* the insert; no row: proceed; fresh row: busy reply; stale row: go on to
\* force_release.
LockInfo(r) ==
    /\ req[r].pc = "lockinfo"
    /\ LET lock_info == get_lock_info(locks, req[r].key)
           elapsed == _compute_elapsed_seconds(lock_info.started_at, now)
       IN req' = [req EXCEPT ![r] =
            IF lock_info = NoLock THEN StartForward(req[r])
            ELSE IF IsStale(elapsed)
                 THEN [req[r] EXCEPT !.pc = "force", !.elapsed = elapsed]
                 ELSE Finish(req[r], "session_busy", 1)]
    /\ UNCHANGED <<now, locks, acqLog, sessions, sessClock, sres, dedup, projects, pres,
                   chatbots, txn>>

\* handle_callback lines 595-596: force_release and commit.
ForceRelease(r) ==
    /\ req[r].pc = "force"
    /\ locks' = force_release(locks, req[r].key).locks
    /\ req' = [req EXCEPT ![r] = [req[r] EXCEPT !.pc = "retry"]]
    /\ UNCHANGED <<now, acqLog, sessions, sessClock, sres, dedup, projects, pres,
                   chatbots, txn>>

\* handle_callback lines 599-621: the one retry of try_acquire.
Retry(r) ==
    /\ req[r].pc = "retry"
    /\ LET res == try_acquire(locks, req[r].key, r, now)
       IN /\ locks' = res.locks
          /\ req' = [req EXCEPT ![r] =
                IF res.ok THEN [StartForward(req[r]) EXCEPT !.faulted = FALSE]
                ELSE Finish(req[r], "session_busy", 1)]
    /\ UNCHANGED <<now, acqLog, sessions, sessClock, sres, dedup, projects, pres,
                   chatbots, txn>>

\* handle_callback lines 727-739: the finally block.
ReleaseInFinally(L, rec) ==
    IF rec.acquired THEN release(L, rec.key).locks ELSE L

AgentReturn_record_failed_call(r) ==
    /\ req[r].pc = "inflight"
    /\ locks' = ReleaseInFinally(locks, req[r])
    /\ \E out \in AgentOutcomes :
         IF out = "agent_error"
         THEN /\ req' = [req EXCEPT ![r] = Finish(req[r], out, 1)]
              /\ sessions' = record_session(sessions, sessClock + 1, EffUser,
                                 TheChat, TheBot, Sid3, TheContent).sessions
              /\ sessClock' = sessClock + 1
         ELSE /\ req' = [req EXCEPT ![r] = Finish(req[r], out, 1)]
              /\ UNCHANGED <<sessions, sessClock>>
    /\ UNCHANGED <<now, acqLog, sres, dedup, projects, pres, chatbots, txn>>

\* handle_callback lines 664-773: forward_to_agent_with_user_project
\* returns or raises, the finally block releases the lock, and the handler
\* replies unless the exception reaches the handler on line 805.
AgentReturn(r) ==
    /\ req[r].pc = "inflight"
    /\ locks' = ReleaseInFinally(locks, req[r])
    /\ \E out \in AgentOutcomes :
         IF out = "ok"
         THEN \E rs \in {IF req[r].session_id = NoId THEN Sid1
                          ELSE req[r].session_id} :
                req' = [req EXCEPT ![r] =
                    IF rs # NoId
                    THEN [req[r] EXCEPT !.pc = "record", !.result_sid = rs,
                                        !.acquired = FALSE, !.key = NoId]
                    ELSE Finish(req[r], "ok", 1)]
         ELSE IF out = "exception"
         THEN req' = [req EXCEPT ![r] = Finish(req[r], "exception", 0)]
         ELSE req' = [req EXCEPT ![r] = Finish(req[r], out, 1)]
    /\ UNCHANGED <<now, acqLog, sessions, sessClock, sres, dedup, projects, pres,
                   chatbots, txn>>

\* handle_callback lines 762-803: record the session, send the reply.
Record(r) ==
    /\ req[r].pc = "record"
    /\ LET res == record_session(sessions, sessClock + 1, EffUser, TheChat,
                                 TheBot, req[r].result_sid, TheContent)
       IN IF res.ret = -1
          THEN /\ req' = [req EXCEPT ![r] = Finish(req[r], "exception", 0)]
               /\ UNCHANGED <<sessions, sessClock>>
          ELSE /\ req' = [req EXCEPT ![r] = Finish(req[r], "ok", 1)]
               /\ sessions' = res.sessions
               /\ sessClock' = sessClock + 1
    /\ UNCHANGED <<now, locks, acqLog, sres, dedup, projects, pres, chatbots, txn>>

\* app.py lifespan: an instance starting up deletes the stale locks.
Lifespan ==
    /\ locks' = cleanup_stale(locks, now, PROCESSING_TIMEOUT_SECONDS)
    /\ locks' # locks
    /\ UNCHANGED <<now, acqLog, sessions, sessClock, sres, dedup, req, projects, pres,
                   chatbots, txn>>

Next ==
    \/ \E r \in Reqs : Receive(r)
    \/ \E r \in Reqs : Active(r)
    \/ \E r \in Reqs : TryAcquire(r)
    \/ \E r \in Reqs : LockInfo(r)
    \/ \E r \in Reqs : ForceRelease(r)
    \/ \E r \in Reqs : Retry(r)
    \/ \E r \in Reqs : AgentReturn(r)
    \/ \E r \in Reqs : Record(r)
    \/ Lifespan
    \/ Tick

Spec == Init /\ [][Next]_vars

(***************************************************************************)
(* C1: for every processing key at most one agent call is in flight at any *)
(* instant.                                                                *)
(***************************************************************************)
InFlight(k) == {r \in Reqs : req[r].pc = "inflight" /\ req[r].key = k}

C1_SingleFlight == \A k \in Keys : Cardinality(InFlight(k)) <= 1

(***************************************************************************)
(* Deliveries that ran the dedup check, and pairs of them that carry the   *)
(* same message id less than the TTL apart.                                *)
(***************************************************************************)
PreDedupOutcomes == {"no_bot", "access_denied", "command", "switch_error"}

Deduped(r) ==
    /\ req[r].pc \notin {"idle", "active"}
    /\ req[r].outcome \notin PreDedupOutcomes

WithinTTL(q, r) ==
    /\ req[q].at - req[r].at < _DEDUP_TTL_SECONDS
    /\ req[r].at - req[q].at < _DEDUP_TTL_SECONDS

SameMessage(q, r) ==
    /\ q # r
    /\ req[q].msg_id # NoId
    /\ req[q].msg_id = req[r].msg_id
    /\ req[q].at >= 0 /\ req[r].at >= 0
    /\ WithinTTL(q, r)

Accepted(r) == Deduped(r) /\ req[r].outcome # "duplicate"

(***************************************************************************)
(* C3 as stated: two deliveries of one message id within the TTL cause     *)
(* exactly one forward attempt.                                            *)
(***************************************************************************)
C3_ExactlyOneForward ==
    \A q, r \in Reqs :
        (SameMessage(q, r) /\ Deduped(q) /\ Deduped(r)
            /\ req[q].pc = "done" /\ req[r].pc = "done")
        => req[q].forwards + req[r].forwards = 1

(***************************************************************************)
(* C3 amended: of two deliveries of one message id that reach the dedup    *)
(* check within the TTL, only one is accepted; the other is dropped as a   *)
(* duplicate without a lock attempt, a forward or a reply; together they   *)
(* cause at most one forward attempt, and exactly one once the accepted    *)
(* delivery has passed the lock.                                           *)
(***************************************************************************)
C3_AtMostOneForward ==
    \A q, r \in Reqs :
        (SameMessage(q, r) /\ Deduped(q) /\ Deduped(r))
        => /\ ~(Accepted(q) /\ Accepted(r))
           /\ req[q].forwards + req[r].forwards <= 1
           /\ (req[r].outcome = "duplicate"
                  => /\ req[r].forwards = 0
                     /\ req[r].replies = 0
                     /\ \A k \in Keys : locks[k].owner # r)
           /\ (Accepted(q) /\ req[q].pc \in {"inflight", "record"}
                  => req[q].forwards + req[r].forwards = 1)

C3_Witness ==
    \E q, r \in Reqs :
        /\ SameMessage(q, r)
        /\ req[q].pc = "inflight" /\ req[q].forwards = 1
        /\ req[r].pc = "done" /\ req[r].outcome = "duplicate"

(***************************************************************************)
(* C4: once a request's forward attempt has finished, on whatever exit     *)
(* path (reply sent, agent error, configuration error, exception), no      *)
(* lock row inserted by that request is left in the table.                 *)
(***************************************************************************)
C4_LockReleasedOnExit ==
    \A r \in Reqs :
        req[r].pc \in {"record", "done"}
        => \A k \in Keys : locks[k].owner # r

C4_Witness ==
    \E r \in Reqs :
        /\ req[r].pc = "done"
        /\ req[r].outcome = "exception"
        /\ req[r].forwards = 1
        /\ \A k \in Keys : locks[k].owner # r

(***************************************************************************)
(* C6 as stated: a request that finds the lock of its key stale clears it  *)
(* and acquires it.                                                        *)
(***************************************************************************)
C6_NextRequestAcquires ==
    [][\A r \in Reqs :
          req[r].pc = "retry" => req'[r].pc \in {"retry", "inflight"}]_vars

(***************************************************************************)
(* C6 amended: a request that finds the lock of its key older than 300 s   *)
(* deletes it and retries; the retry acquires the lock unless another      *)
(* request for the key inserted its own row after the delete, in which     *)
(* case the request ends with the busy reply.  Either way the stale row is *)
(* gone, with no sweeper involved.                                         *)
(***************************************************************************)
C6_StaleLockCleared ==
    [][\A r \in Reqs :
          /\ (req[r].pc = "force" /\ req'[r].pc # "force")
                => /\ req[r].elapsed > PROCESSING_TIMEOUT_SECONDS
                   /\ req'[r].pc = "retry"
                   /\ locks'[req[r].key] = NoLock
          /\ (req[r].pc = "retry" /\ req'[r].pc # "retry")
                => IF locks[req[r].key] = NoLock
                   THEN /\ req'[r].pc = "inflight"
                        /\ locks'[req[r].key].owner = r
                   ELSE /\ locks[req[r].key].owner \in Reqs \ {r}
                        /\ req'[r].pc = "done"
                        /\ req'[r].outcome = "session_busy"]_vars

C6_Witness ==
    \E r \in Reqs :
        /\ req[r].pc = "inflight"
        /\ req[r].elapsed > PROCESSING_TIMEOUT_SECONDS
        /\ locks[req[r].key].owner = r
        /\ locks[req[r].key].started_at = now

(***************************************************************************)
(* C7: after a failed try_acquire the handler reads the lock row; a row    *)
(* older than 300 s is force-released and the acquisition retried exactly  *)
(* once; a row that is not older, or a failed retry, ends the request with *)
(* one busy reply and without an agent call.                               *)
(***************************************************************************)
BusyReturn(r) ==
    /\ req'[r].pc = "done"
    /\ req'[r].outcome = "session_busy"
    /\ req'[r].replies = req[r].replies + 1
    /\ req'[r].forwards = 0
    /\ locks' = locks

C8_ReaderSeesOneActive ==
    Cardinality({i \in list_sessions(sessions, EffUser, TheChat, TheBot) :
                    sessions[i].is_active}) <= 1

(***************************************************************************)
(* C9: a message that ends in a terminal error has produced exactly one    *)
(* reply.                                                                  *)
(***************************************************************************)
ErrorOutcomes == {"no_bot", "access_denied", "no_target", "session_busy",
                  "agent_error", "config_error", "exception", "switch_error"}

C9_OneReplyPerError ==
    \A r \in Reqs :
        (req[r].pc = "done" /\ req[r].outcome \in ErrorOutcomes)
        => req[r].replies = 1

(***************************************************************************)
(* C10: a delivery that repeats the message id of an earlier delivery      *)
(* within the TTL produces no reply, whatever its text.                    *)
(***************************************************************************)
C10_DuplicateNoReply ==
    \A q, r \in Reqs :
        (q < r /\ SameMessage(q, r) /\ req[r].pc = "done")
        => req[r].replies = 0

(***************************************************************************)
(* SpecFault: the handler of Spec with a database that can fail during the *)
(* lock section.  faulted records that the request's latest acquisition    *)
(* attempt ended in a database error.                                      *)
(***************************************************************************)
\* except lock_err (callback.py 625-635): busy reply, return.
LockErrorReturn(rec) == Finish([rec EXCEPT !.faulted = TRUE], "lock_error", 1)

\* try_acquire's flush raises a database error other than the UNIQUE
\* conflict: rollback, return False (repository.py 1328-1331); or the
\* handler's commit of the insert raises (callback.py 585-586).
FaultTryAcquire(r) ==
    /\ req[r].pc = "lock"
    /\ \E at_commit \in BOOLEAN :
         req' = [req EXCEPT ![r] =
            IF at_commit THEN LockErrorReturn(req[r])
            ELSE [req[r] EXCEPT !.pc = "lockinfo", !.faulted = TRUE]]
    /\ UNCHANGED <<now, locks, acqLog, sessions, sessClock, sres, dedup, projects, pres,
                   chatbots, txn>>

\* get_lock_info raises (callback.py 589).
FaultLockInfo(r) ==
    /\ req[r].pc = "lockinfo"
    /\ req' = [req EXCEPT ![r] = LockErrorReturn(req[r])]
    /\ UNCHANGED <<now, locks, acqLog, sessions, sessClock, sres, dedup, projects, pres,
                   chatbots, txn>>

\* force_release or its commit raises (callback.py 595-596).
FaultForceRelease(r) ==
    /\ req[r].pc = "force"
    /\ req' = [req EXCEPT ![r] = LockErrorReturn(req[r])]
    /\ UNCHANGED <<now, locks, acqLog, sessions, sessClock, sres, dedup, projects, pres,
                   chatbots, txn>>

\* The retry's flush raises: try_acquire returns False and the handler
\* sends the busy reply (callback.py 599-621); or the retry's commit raises.
FaultRetry(r) ==
    /\ req[r].pc = "retry"
    /\ \E at_commit \in BOOLEAN :
         req' = [req EXCEPT ![r] =
            IF at_commit THEN LockErrorReturn(req[r])
            ELSE Finish([req[r] EXCEPT !.faulted = TRUE], "session_busy", 1)]
    /\ UNCHANGED <<now, locks, acqLog, sessions, sessClock, sres, dedup, projects, pres,
                   chatbots, txn>>

NextFault ==
    \/ Next
    \/ \E r \in Reqs : FaultTryAcquire(r)
    \/ \E r \in Reqs : FaultLockInfo(r)
    \/ \E r \in Reqs : FaultForceRelease(r)
    \/ \E r \in Reqs : FaultRetry(r)

SpecFault == Init /\ [][NextFault]_vars

(***************************************************************************)
(* C11: a request whose lock acquisition ended in a database error does    *)
(* not call the agent and ends with one busy reply.                        *)
(***************************************************************************)
C11_FaultMeansBusy ==
    \A r \in Reqs :
        req[r].faulted
        => /\ req[r].pc \notin {"inflight", "record"}
           /\ req[r].forwards = 0
           /\ (req[r].pc = "done"
                 => /\ req[r].outcome \in {"session_busy", "lock_error"}
                    /\ req[r].replies = 1)

(***************************************************************************)
(* user_project_configs table: a sequence of rows, the row id being the    *)
(* index; (bot_key, chat_id, project_id) is UNIQUE.  created_at is the     *)
(* clock reading at insertion: two rows inserted within one clock instant  *)
(* carry the same created_at.                                              *)
(***************************************************************************)
MaxProjects == 2

ProjectIds == {"prod", "staging", "dev"}
NoProject == ""

\* Optional[bool] arguments of update.
Tri == {"unset", "true", "false"}

GroupRows(P, bot_key, chat_id) ==
    {i \in DOMAIN P : P[i].bot_key = bot_key /\ P[i].chat_id = chat_id}

\* UserProjectConfigRepository._clear_default_flag
_clear_default_flag_noop(P, bot_key, chat_id) == P

_clear_default_flag(P, bot_key, chat_id) ==
    [i \in DOMAIN P |->
        IF i \in GroupRows(P, bot_key, chat_id) /\ P[i].is_default
        THEN [P[i] EXCEPT !.is_default = FALSE] ELSE P[i]]

\* UserProjectConfigRepository.get_by_project_id: the row id, 0 for None.
get_by_project_id(P, bot_key, chat_id, project_id) ==
    LET hit == {i \in GroupRows(P, bot_key, chat_id) : P[i].project_id = project_id}
    IN IF hit = {} THEN 0 ELSE CHOOSE i \in hit : TRUE

\* UserProjectConfigRepository.create: a duplicate (bot, chat, project_id)
\* violates the UNIQUE constraint and the transaction is rolled back.
create(P, bot_key, chat_id, project_id, is_default, enabled, at) ==
    IF get_by_project_id(P, bot_key, chat_id, project_id) # 0
    THEN [ok |-> FALSE, projects |-> P]
    ELSE [ok |-> TRUE,
          projects |-> Append(
              IF is_default THEN _clear_default_flag(P, bot_key, chat_id) ELSE P,
              [bot_key |-> bot_key, chat_id |-> chat_id,
               project_id |-> project_id, is_default |-> is_default,
               enabled |-> enabled, created_at |-> at])]

\* UserProjectConfigRepository.set_default: clear the flags of the group,
\* then flag the named project; ok is rowcount > 0.
set_default(P, bot_key, chat_id, project_id) ==
    LET P1 == _clear_default_flag(P, bot_key, chat_id)
        t == get_by_project_id(P1, bot_key, chat_id, project_id)
    IN [ok |-> t # 0,
        projects |-> IF t = 0 THEN P1
                     ELSE [P1 EXCEPT ![t] = [@ EXCEPT !.is_default = TRUE]]]

\* UserProjectConfigRepository.update, restricted to is_default and enabled.
update(P, config_id, is_default, enabled) ==
    IF is_default = "unset" /\ enabled = "unset" THEN P
    ELSE LET P1 == IF is_default = "true" /\ config_id \in DOMAIN P
                   THEN _clear_default_flag(P, P[config_id].bot_key,
                                            P[config_id].chat_id)
                   ELSE P
         IN [i \in DOMAIN P1 |->
               IF i # config_id THEN P1[i]
               ELSE [P1[i] EXCEPT
                       !.is_default = IF is_default = "unset" THEN @
                                      ELSE is_default = "true",
                       !.enabled = IF enabled = "unset" THEN @
                                   ELSE enabled = "true"]]

\* UserProjectConfigRepository.get_default_project: the row id, 0 for None,
\* -1 when scalar_one_or_none raises MultipleResultsFound.
get_default_project_any(P, bot_key, chat_id) ==
    LET hit == {i \in GroupRows(P, bot_key, chat_id) : P[i].is_default}
    IN IF hit = {} THEN 0
       ELSE IF Cardinality(hit) > 1 THEN 0 - 1
       ELSE CHOOSE i \in hit : TRUE

get_default_project(P, bot_key, chat_id) ==
    LET hit == {i \in GroupRows(P, bot_key, chat_id) :
                    P[i].is_default /\ P[i].enabled}
    IN IF hit = {} THEN 0
       ELSE IF Cardinality(hit) > 1 THEN 0 - 1
       ELSE CHOOSE i \in hit : TRUE

\* ORDER BY is_default DESC, created_at: row i must come before row j.
OrderedBefore(P, i, j) ==
    \/ P[i].is_default /\ ~P[j].is_default
    \/ /\ P[i].is_default = P[j].is_default
       /\ P[i].created_at < P[j].created_at

\* UserProjectConfigRepository.get_user_projects(enabled_only=True): every
\* list of row ids the ORDER BY allows; rows that tie on both sort keys come
\* in an order the database chooses.
get_user_projects(P, bot_key, chat_id) ==
    LET E == {i \in GroupRows(P, bot_key, chat_id) : P[i].enabled}
        n == Cardinality(E)
    IN {s \in [1..n -> E] :
          /\ \A k, l \in 1..n : k # l => s[k] # s[l]
          /\ \A k, l \in 1..n : k < l => ~OrderedBefore(P, s[l], s[k])}

\* Bot-level configuration: no bot record, a bot without target_url, a bot
\* with one.
BotCfgs == {"missing", "no_url", "url"}

\* get_forward_config_for_user: kind "project" with the row id, "bot" for the
\* bot-level configuration, "error" for the ValueError.
get_forward_config_for_user_default_first(P, bot_cfg, bot_key, chat_id, current_project_id, all_projects) ==
    LET pinned == IF current_project_id = NoProject THEN 0
                  ELSE get_by_project_id(P, bot_key, chat_id, current_project_id)
        default_project == get_default_project(P, bot_key, chat_id)
    IN IF default_project > 0
       THEN [kind |-> "project", id |-> default_project]
       ELSE IF pinned # 0 /\ P[pinned].enabled
       THEN [kind |-> "project", id |-> pinned]
       ELSE IF default_project = 0 /\ Len(all_projects) > 0
       THEN [kind |-> "project", id |-> all_projects[1]]
       ELSE IF bot_cfg = "url" THEN [kind |-> "bot", id |-> 0]
       ELSE [kind |-> "error", id |-> 0]

get_forward_config_for_user(P, bot_cfg, bot_key, chat_id, current_project_id, all_projects) ==
    LET pinned == IF current_project_id = NoProject THEN 0
                  ELSE get_by_project_id(P, bot_key, chat_id, current_project_id)
        default_project == get_default_project(P, bot_key, chat_id)
    IN IF pinned # 0 /\ P[pinned].enabled
       THEN [kind |-> "project", id |-> pinned]
       ELSE IF default_project > 0
       THEN [kind |-> "project", id |-> default_project]
       ELSE IF default_project = 0 /\ Len(all_projects) > 0
       THEN [kind |-> "project", id |-> all_projects[1]]
       ELSE IF bot_cfg = "url" THEN [kind |-> "bot", id |-> 0]
       ELSE [kind |-> "error", id |-> 0]

(***************************************************************************)
(* SpecProj: repository calls on the project table, one transaction each.  *)
(***************************************************************************)
PCreate(b, c, pid, is_default, enabled) ==
    /\ Len(projects) < MaxProjects
    /\ LET res == create(projects, b, c, pid, is_default, enabled, now)
       IN /\ projects' = res.projects
          /\ pres' = [op |-> "create", ret |-> res.ok]
    /\ UNCHANGED <<now, locks, acqLog, sessions, sessClock, sres, dedup, req, chatbots, txn>>

PSetDefault(b, c, pid) ==
    /\ LET res == set_default(projects, b, c, pid)
       IN /\ projects' = res.projects
          /\ pres' = [op |-> "set_default", ret |-> res.ok]
    /\ UNCHANGED <<now, locks, acqLog, sessions, sessClock, sres, dedup, req, chatbots, txn>>

PUpdate(id, is_default, enabled) ==
    /\ projects' = update(projects, id, is_default, enabled)
    /\ pres' = [op |-> "update", ret |-> id \in DOMAIN projects]
    /\ UNCHANGED <<now, locks, acqLog, sessions, sessClock, sres, dedup, req, chatbots, txn>>

\* get_forward_config_for_user for one (bot, chat), the bot-level
\* configuration and the session's pinned project being inputs; all_projects
\* is the list the ordered query of step 3 returned.
PResolve(b, c, bot_cfg, cur) ==
    /\ \E all_projects \in get_user_projects(projects, b, c) :
          pres' = [op |-> "resolve", bot_key |-> b, chat_id |-> c,
                   bot_cfg |-> bot_cfg, current_project_id |-> cur,
                   ret |-> get_forward_config_for_user(
                              projects, bot_cfg, b, c, cur, all_projects)]
    /\ UNCHANGED <<now, locks, acqLog, sessions, sessClock, sres, dedup, req,
                   projects, chatbots, txn>>

\* The projects the calls name: three of the resolved group and one of
\* another bot's group.
ProjectKeys ==
    {<<TheBot, TheChat, pid>> : pid \in ProjectIds}
        \cup {<<"b2", TheChat, "prod">>}

NextProj ==
    \/ \E k \in ProjectKeys, d, e \in BOOLEAN :
          PCreate(k[1], k[2], k[3], d, e)
    \/ \E k \in ProjectKeys : PSetDefault(k[1], k[2], k[3])
    \/ \E id \in 1..MaxProjects, d, e \in Tri : PUpdate(id, d, e)
    \/ \E bot_cfg \in BotCfgs, cur \in ProjectIds \cup {NoProject} :
          PResolve(TheBot, TheChat, bot_cfg, cur)
    \/ Tick

SpecProj == InitCommon /\ [][NextProj]_vars

(***************************************************************************)
(* C12: after any interleaving of create, set_default and update           *)
(* transactions at most one project of a (bot_key, chat_id) is the         *)
(* default.                                                                *)
(***************************************************************************)
DefaultRows(P, bot_key, chat_id) ==
    {i \in GroupRows(P, bot_key, chat_id) : P[i].is_default}

EnabledRows(P, bot_key, chat_id) ==
    {i \in GroupRows(P, bot_key, chat_id) : P[i].enabled}

Resolved == pres.op = "resolve"

C13_PriorityOrder ==
    Resolved =>
        LET en == EnabledRows(projects, pres.bot_key, pres.chat_id)
            pin == {i \in en : /\ pres.current_project_id # NoProject
                               /\ projects[i].project_id = pres.current_project_id}
            def == {i \in en : projects[i].is_default}
        IN /\ pin # {} => pres.ret.kind = "project" /\ pres.ret.id \in pin
           /\ pin = {} /\ def # {} =>
                 pres.ret.kind = "project" /\ pres.ret.id \in def
           /\ pin = {} /\ def = {} /\ en # {} =>
                 pres.ret.kind = "project" /\ pres.ret.id \in en
           /\ en = {} /\ pres.bot_cfg = "url" => pres.ret.kind = "bot"

\* The default "prod", inserted after the non-default "staging", is returned
\* when nothing is pinned; and a pinned project is returned over a default.
C13_Witness ==
    /\ Resolved
    /\ \E i, j \in EnabledRows(projects, pres.bot_key, pres.chat_id) :
          /\ i < j
          /\ projects[i].project_id = "staging" /\ ~projects[i].is_default
          /\ projects[j].project_id = "prod" /\ projects[j].is_default
          /\ \/ pres.current_project_id = NoProject /\ pres.ret.id = j
             \/ pres.current_project_id = "staging" /\ pres.ret.id = i

(***************************************************************************)
(* C14: with nothing pinned, no default and more than one enabled project, *)
(* resolve returns the project that was created first.                     *)
(***************************************************************************)
C14_EarliestCreated ==
    Resolved /\ pres.current_project_id = NoProject =>
        LET en == EnabledRows(projects, pres.bot_key, pres.chat_id)
        IN (Cardinality(en) > 1 /\ \A i \in en : ~projects[i].is_default)
              => /\ pres.ret.kind = "project"
                 /\ \A i \in en : pres.ret.id <= i

(***************************************************************************)
(* C15: a message for which neither a project nor the bot configuration    *)
(* gives a URL ends with a reply that tells the user what to do.           *)
(***************************************************************************)
C15_NoTargetGetsGuidance ==
    \A r \in Reqs :
        req[r].pc = "done" /\ req[r].outcome \in {"no_target", "config_error"}
            => req[r].replies >= 1

(***************************************************************************)
(* C16: resolve never returns a disabled project, be it pinned, default,   *)
(* the only one or the earliest one.                                       *)
(***************************************************************************)
C16_NeverDisabled ==
    Resolved /\ pres.ret.kind = "project" => projects[pres.ret.id].enabled

\* A project is returned although the pinned project and the default of the
\* group are both disabled.
C16_Witness ==
    /\ Resolved
    /\ pres.ret.kind = "project"
    /\ \E i \in GroupRows(projects, pres.bot_key, pres.chat_id) :
          /\ ~projects[i].enabled
          /\ projects[i].is_default
          /\ projects[i].project_id = pres.current_project_id

(***************************************************************************)
(* C17: a successful changeTo followed at once by getActive for the same   *)
(* (user, chat, bot) returns the changed-to session, and the session that  *)
(* was active before is no longer active.                                  *)
(***************************************************************************)
C17_ChangeThenGetActive ==
    [][\A u \in Users, c \in Chats, b \in Bots \cup {None}, short \in ShortArgs :
          SChange(u, c, short, b) /\ sres'.ret > 0 =>
              LET t == sres'.ret
                  bk == sessions'[t].bot_key
              IN /\ get_active_session(sessions', u, c, bk) = t
                 /\ \A i \in ActiveRows(sessions, u, c, bk) \ {t} :
                       ~sessions'[i].is_active]_vars

\* A change has just succeeded and another session of the triple was
\* deactivated by it.
C17_Witness ==
    /\ sres.op = "change"
    /\ sres.ret > 0
    /\ \E i \in DOMAIN sessions :
          /\ i # sres.ret
          /\ sessions[i].bot_key = sessions[sres.ret].bot_key
          /\ ~sessions[i].is_active
          /\ sessions[i].updated_at = sessClock
          /\ sessions[sres.ret].updated_at = sessClock

(***************************************************************************)
(* C19: reset deactivates the active session of the triple and returns     *)
(* true exactly when one existed; right after it getActive for the triple  *)
(* returns none.                                                           *)
(***************************************************************************)
C19_ResetThenNoneActive ==
    [][\A u \in Users, c \in Chats, b \in Bots :
          SReset(u, c, b) =>
              /\ sres'.ret = (ActiveRows(sessions, u, c, b) # {})
              /\ get_active_session(sessions', u, c, b) = 0
              /\ \A i \in DOMAIN sessions :
                    i \notin ActiveRows(sessions, u, c, b)
                        => sessions'[i] = sessions[i]]_vars

\* A reset has just returned true: a session was deactivated by it.
C19_Witness ==
    /\ sres.op = "reset"
    /\ sres.ret
    /\ \E i \in DOMAIN sessions :
          ~sessions[i].is_active /\ sessions[i].updated_at = sessClock

(***************************************************************************)
(* C18: record with a session id the triple already has adds no row,       *)
(* increments that row's message_count by exactly one and stores the new   *)
(* last_message; only a session id not seen before inserts a row, and it   *)
(* deactivates the session that was active.                                *)
(***************************************************************************)
C18_RecordIdempotent ==
    [][\A u \in Users, c \in Chats, b \in Bots, sid \in AllSessionIds,
         msg \in Messages :
          SRecord(u, c, b, sid, msg) =>
              LET found == {i \in MatchRows(sessions, u, c, b) :
                                sessions[i].session_id = sid}
                  n == Len(sessions)
                  stored == [tag |-> msg.tag,
                             len |-> IF msg.len > 200 THEN 200 ELSE msg.len]
              IN /\ found # {} =>
                      /\ Len(sessions') = n
                      /\ \A e \in found :
                            /\ sessions'[e].message_count
                                   = sessions[e].message_count + 1
                            /\ sessions'[e].last_message = stored
                      /\ \A i \in DOMAIN sessions \ found :
                            sessions'[i] = sessions[i]
                 /\ found = {} =>
                      /\ Len(sessions') = n + 1
                      /\ sessions'[n + 1].session_id = sid
                      /\ sessions'[n + 1].message_count = 1
                      /\ sessions'[n + 1].last_message = stored
                      /\ sessions'[n + 1].is_active
                      /\ \A i \in ActiveRows(sessions, u, c, b) :
                            ~sessions'[i].is_active]_vars

\* A record has just updated an existing row, replacing its last_message by a
\* truncated text, while the table also holds a row it left alone.
C18_Witness ==
    /\ sres.op = "record"
    /\ sres.ret \in DOMAIN sessions
    /\ sessions[sres.ret].message_count = 2
    /\ sessions[sres.ret].updated_at = sessClock
    /\ sessions[sres.ret].last_message = [tag |-> "b", len |-> 200]
    /\ Len(sessions) >= 2

(***************************************************************************)
(* C20: once a reset command has been acknowledged, no session is active   *)
(* for the (user, chat, bot) until the reply to the next message, which is *)
(* forwarded without a session id, is recorded -- whatever requests were   *)
(* in flight when the reset ran.  A request that was forwarded with a      *)
(* session id is not that next message, so its record step must leave the  *)
(* triple without an active session.                                       *)
(***************************************************************************)
ResetAcknowledged ==
    \E q \in Reqs : /\ req[q].pc = "done"
                    /\ req[q].kind = "reset"
                    /\ req[q].outcome = "command"
                    /\ req[q].replies = 1

C20_NoSessionUntilNextReply ==
    [][\A r \in Reqs :
          (/\ Record(r)
           /\ req[r].session_id # NoId
           /\ ResetAcknowledged
           /\ ActiveRows(sessions, EffUser, TheChat, TheBot) = {})
              => ActiveRows(sessions', EffUser, TheChat, TheBot) = {}]_vars

(***************************************************************************)
(* SpecQuote: Spec with quoted replies to messages of a project whose name *)
(* has two words (/add-project ... --name takes the rest of the line).     *)
(***************************************************************************)
QuoteProjectNames == HandlerProjectNames \cup {<<"m", "y", " ", "p">>}

QReceive(r) ==
    ReceiveFrom(r, {[kind |-> "quoted", arg |-> a] :
                       a \in QuotedParts(QuoteProjectNames)})

NextQuote ==
    \/ Next
    \/ \E r \in Reqs : QReceive(r)

SpecQuote == Init /\ [][NextQuote]_vars

(***************************************************************************)
(* C21: a message that quotes a message carrying the short-id tag of one   *)
(* of the sender's sessions switches the active session to that session    *)
(* before the forward and goes to the agent under that session's id.       *)
(***************************************************************************)
\* Row t of the sender's sessions is the only one whose tag the text carries.
QuotesSession(quoted_part, t) ==
    /\ t \in MatchRows(sessions, EffUser, TheChat, TheBot)
    /\ \E pn \in QuoteProjectNames :
          quoted_part = QuotedPart(
              create_message_header(sessions[t].short_id, pn, 1, 1))
    /\ \A u \in MatchRows(sessions, EffUser, TheChat, TheBot) :
          sessions[u].short_id = sessions[t].short_id => u = t

C21_QuotedSwitch ==
    [][\A r \in Reqs, t \in DOMAIN sessions :
          (/\ QReceive(r)
           /\ req'[r].kind = "quoted"
           /\ req'[r].pc # "done"
           /\ QuotesSession(req'[r].arg, t))
              => /\ req'[r].session_id = sessions[t].session_id
                 /\ sessions'[t].is_active]_vars

(***************************************************************************)
(* SpecChange: Spec with "/c <id> text" messages.                          *)
(***************************************************************************)
\* "/c a1a1a1a1 hi"
ChangeTexts ==
    {<<"/", "c", " ">> \o sh \o <<" ", "h", "i">> : sh \in HandlerShortArgs}

CReceive(r) == ReceiveFrom(r, {TextPayload(t) : t \in ChangeTexts})

NextChange ==
    \/ Next
    \/ \E r \in Reqs : CReceive(r)

SpecChange == Init /\ [][NextChange]_vars

(***************************************************************************)
(* C22: "/c <id> text" with an id of one of the sender's sessions switches *)
(* the active session to it and then forwards text under the id of the     *)
(* session it switched to.                                                 *)
(***************************************************************************)
C22_ChangeThenForward ==
    [][\A r \in Reqs :
          (/\ Active(r)
           /\ req[r].kind = "change_msg"
           /\ req'[r].pc # "done")
              => ShortIdOf(req'[r].session_id) = req[r].arg]_vars

(***************************************************************************)
(* SpecHelp: Spec with the texts "/c", "/change", "/C " and, for           *)
(* comparison, "/s" and "/R".                                              *)
(***************************************************************************)
BareChangeTexts ==
    {<<"/", "c">>, <<"/", "c", "h", "a", "n", "g", "e">>, <<"/", "C", " ">>}

CommandTexts == BareChangeTexts \cup {<<"/", "s">>, <<"/", "R">>}

HReceive(r) == ReceiveFrom(r, {TextPayload(t) : t \in CommandTexts})

NextHelp ==
    \/ Next
    \/ \E r \in Reqs : HReceive(r)

SpecHelp == Init /\ [][NextHelp]_vars

(***************************************************************************)
(* C23: a bare "/c" or "/change" is answered with usage help; it is not an *)
(* error and it is not forwarded to the agent.                             *)
(***************************************************************************)
C23_BareChangeGetsHelp ==
    \A r \in Reqs :
        req[r].arg \in BareChangeTexts
            => /\ req[r].forwards = 0
               /\ req[r].pc \in {"done"}
               /\ req[r].outcome \in {"command", "duplicate"}

(***************************************************************************)
(* SpecKey: the key handle_callback computes for a message, over users,    *)
(* chats, chat types and session ids; NoId is the empty string, which is   *)
(* also how an absent session id (None) is written.                        *)
(***************************************************************************)
KeyUsers == {"u1", "u2", "u3"}
KeyChats == {"c1", "g1", "g2"}
ChatTypes == {"single", "group"}
KeySessionIds == {NoId} \cup AllSessionIds

KCompute(sid, u, c, b, ct) ==
    /\ sres' = [op |-> "key", session_id |-> sid, user_id |-> u, chat_id |-> c,
                bot_key |-> b, chat_type |-> ct,
                ret |-> processing_key(sid, u, c, b, ct)]
    /\ UNCHANGED <<now, locks, acqLog, sessions, sessClock, dedup, req,
                   projects, pres, chatbots, txn>>

NextKey ==
    \E sid \in KeySessionIds, u \in KeyUsers, c \in KeyChats, b \in Bots,
       ct \in ChatTypes : KCompute(sid, u, c, b, ct)

SpecKey == InitCommon /\ [][NextKey]_vars

C25_KeysIndependent ==
    [][\A c \in Callers, k \in Keys :
          LTryAcquire(c, k) =>
              /\ locks[k] = NoLock =>
                    /\ locks'[k] = [started_at |-> now, owner |-> c]
                    /\ acqLog'[k][Len(acqLog'[k])]
              /\ \A j \in Keys \ {k} : locks'[j] = locks[j]]_vars

\* The locks of two keys are held at once, each taken by a successful
\* try_acquire.
C25_Witness ==
    \E j, k \in Keys :
        /\ j # k
        /\ locks[j] # NoLock /\ locks[j].owner \in Callers
        /\ locks[k] # NoLock /\ locks[k].owner \in Callers
        /\ acqLog[j] = <<TRUE>> /\ acqLog[k] = <<TRUE>>

(***************************************************************************)
(* The outbound message splitter (message_splitter.py).  "zh" stands for   *)
(* one CJK character, three bytes in UTF-8 like the quotation mark; every  *)
(* other character of the texts used here is ASCII.                        *)
(***************************************************************************)
MAX_MESSAGE_BYTES == 2048
HEADER_RESERVE_BYTES == 150
EFFECTIVE_MAX_BYTES == MAX_MESSAGE_BYTES - HEADER_RESERVE_BYTES

WideChars == {"zh", "ldquo"}

\* len(char.encode('utf-8'))
char_bytes(char) == IF char \in WideChars THEN 3 ELSE 1

RECURSIVE get_string_bytes(_)
get_string_bytes(s) ==
    IF s = <<>> THEN 0 ELSE char_bytes(Head(s)) + get_string_bytes(Tail(s))

RECURSIVE split_newline(_, _, _)
\* message.split('\n'): cur is the line being read, acc the lines read.
split_newline(s, cur, acc) ==
    IF s = <<>> THEN Append(acc, cur)
    ELSE IF Head(s) = "\n"
         THEN split_newline(Tail(s), <<>>, Append(acc, cur))
         ELSE split_newline(Tail(s), Append(cur, Head(s)), acc)

RECURSIVE join_newline(_)
\* '\n'.join(lines)
join_newline(lines) ==
    IF lines = <<>> THEN <<>>
    ELSE IF Len(lines) = 1 THEN lines[1]
         ELSE lines[1] \o <<"\n">> \o join_newline(Tail(lines))

RECURSIVE split_long_line_loop(_, _, _, _, _)
\* The loop of _split_long_line over the characters left in line.
split_long_line_loop(line, max_bytes, parts, current_chars, current_bytes) ==
    IF line = <<>>
    THEN IF current_chars # <<>> THEN Append(parts, current_chars) ELSE parts
    ELSE LET char == Head(line)
             cb == char_bytes(char)
         IN IF current_bytes + cb > max_bytes
            THEN split_long_line_loop(
                     Tail(line), max_bytes,
                     IF current_chars # <<>> THEN Append(parts, current_chars)
                                             ELSE parts,
                     <<char>>, cb)
            ELSE split_long_line_loop(Tail(line), max_bytes, parts,
                                      Append(current_chars, char),
                                      current_bytes + cb)

_split_long_line(line, max_bytes) ==
    IF line = <<>> THEN << <<>> >>
    ELSE split_long_line_loop(line, max_bytes, <<>>, <<>>, 0)

RECURSIVE split_message_content_loop(_, _, _, _, _)
\* The loop of split_message_content over the lines left; current_part is
\* the list of lines of the part being filled.
split_message_content_loop(lines, max_bytes, parts, current_part, current_bytes) ==
    IF lines = <<>>
    THEN IF current_part # <<>> THEN Append(parts, join_newline(current_part))
                                ELSE parts
    ELSE LET line == Head(lines)
             line_bytes == get_string_bytes(line)
             newline_bytes == 1
             flushed == IF current_part # <<>>
                        THEN Append(parts, join_newline(current_part))
                        ELSE parts
             split_lines == _split_long_line(line, max_bytes)
             last_line == split_lines[Len(split_lines)]
             additional_bytes ==
                 line_bytes + (IF current_part # <<>> THEN newline_bytes ELSE 0)
         IN IF line_bytes > max_bytes
            THEN split_message_content_loop(
                     Tail(lines), max_bytes,
                     flushed \o SubSeq(split_lines, 1, Len(split_lines) - 1),
                     <<last_line>>, get_string_bytes(last_line))
            ELSE IF current_bytes + additional_bytes > max_bytes
            THEN split_message_content_loop(Tail(lines), max_bytes, flushed,
                                            <<line>>, line_bytes)
            ELSE split_message_content_loop(Tail(lines), max_bytes, parts,
                                            Append(current_part, line),
                                            current_bytes + additional_bytes)

split_message_content(message, max_bytes) ==
    IF message = <<>> THEN << <<>> >>
    ELSE IF get_string_bytes(message) <= max_bytes THEN <<message>>
    ELSE split_message_content_loop(split_newline(message, <<>>, <<>>),
                                    max_bytes, <<>>, <<>>, 0)

split_and_format_message(message, short_id, project_name, max_bytes) ==
    LET content_parts == split_message_content(message, max_bytes)
        total_parts == Len(content_parts)
    IN [i \in 1..total_parts |->
          LET header == create_message_header(short_id, project_name, i,
                                              total_parts)
          IN [content |-> IF header # <<>>
                          THEN header \o <<"\n">> \o content_parts[i]
                          ELSE content_parts[i],
              part_number |-> i,
              total_parts |-> total_parts,
              is_first |-> (i = 1),
              is_last |-> (i = total_parts)]]

\* needs_split: whether the message with its one-part header passes the
\* platform's maximum.
needs_split(message, short_id, project_name) ==
    LET header == create_message_header(short_id, project_name, 1, 1)
        full_message == IF header # <<>> THEN header \o <<"\n">> \o message
                                         ELSE message
    IN get_string_bytes(full_message) > MAX_MESSAGE_BYTES

(***************************************************************************)
(* SpecSplit: the splitter applied to reply texts of up to MaxTextLen      *)
(* characters over an ASCII letter, a CJK character and the newline, with  *)
(* and without a short id and a project name, the longest name being one   *)
(* the project_name column (200 characters) admits.  The per-part limit is *)
(* the max_bytes argument; the limit of a whole chunk that goes with it is *)
(* max_bytes plus the header reserve, 2048 at the default.                 *)
(***************************************************************************)
MaxTextLen == 5
TextChars == {"a", "zh", "\n"}
SplitLimits == {4, 6}
LongProjectName == [i \in 1..50 |-> "zh"]
SplitProjectNames == {NoName, <<"p", "1">>, LongProjectName}
SplitShortIds == {NoId, ShortIdOf(Sid1)}

ReplyTexts == UNION {[1..n -> TextChars] : n \in 0..MaxTextLen}

\* The arguments of one call.
InitSplit ==
    /\ now = 0
    /\ locks = [k \in Keys |-> NoLock]
    /\ acqLog = [k \in Keys |-> <<>>]
    /\ sessions = <<>>
    /\ sessClock = 0
    /\ dedup = {}
    /\ req = [r \in Reqs |-> IdleReq]
    /\ projects = <<>>
    /\ pres = NoResult
    /\ chatbots = <<>>
    /\ txn = <<>>
    /\ \E message \in ReplyTexts, short_id \in SplitShortIds,
          project_name \in SplitProjectNames, max_bytes \in SplitLimits :
            sres = [op |-> "split_args", message |-> message,
                    short_id |-> short_id, project_name |-> project_name,
                    max_bytes |-> max_bytes, ret |-> <<>>]

XSplit ==
    /\ sres.op = "split_args"
    /\ sres' = [sres EXCEPT
                  !.op = "split",
                  !.ret = split_and_format_message(sres.message, sres.short_id,
                                                   sres.project_name,
                                                   sres.max_bytes)]
    /\ UNCHANGED <<now, locks, acqLog, sessions, sessClock, dedup, req,
                   projects, pres, chatbots, txn>>

NextSplit == XSplit

SpecSplit == InitSplit /\ [][NextSplit]_vars

\* The limit of a whole chunk, header included, when parts are cut at
\* max_bytes: MAX_MESSAGE_BYTES when max_bytes is EFFECTIVE_MAX_BYTES.
ConfiguredMaximum(max_bytes) == max_bytes + HEADER_RESERVE_BYTES

(***************************************************************************)
(* C26: every chunk the splitter produces, header included, is at most the *)
(* configured maximum in UTF-8 bytes, for every reply text, short id and   *)
(* project name.                                                           *)
(***************************************************************************)
C26_ChunkWithinMaximum ==
    sres.op = "split" =>
        \A i \in DOMAIN sres.ret :
            get_string_bytes(sres.ret[i].content)
                <= ConfiguredMaximum(sres.max_bytes)

\* The body of chunk i: its content without the header line.
ChunkBody(i) ==
    LET header == create_message_header(sres.short_id, sres.project_name, i,
                                        Len(sres.ret))
        content == sres.ret[i].content
    IN IF header # <<>> THEN SubSeq(content, Len(header) + 2, Len(content))
                        ELSE content

RECURSIVE ConcatBodies(_)
ConcatBodies(i) ==
    IF i > Len(sres.ret) THEN <<>> ELSE ChunkBody(i) \o ConcatBodies(i + 1)

(***************************************************************************)
(* C27: the bodies of the chunks, concatenated in part order with the      *)
(* headers stripped, are the original reply text.                          *)
(***************************************************************************)
C27_BodiesReproduceText ==
    sres.op = "split" => ConcatBodies(1) = sres.message

(***************************************************************************)
(* SpecSend: sender._send_message_split.  The reply is split, then each    *)
(* chunk is handed to send_to_wecom in turn; a call returns errcode 0, or  *)
(* a non-zero errcode, or raises (send_to_wecom re-raises what the client  *)
(* library raises).  calls is the log of the contents handed over.  The    *)
(* per-part limit is drawn from SplitLimits so that short replies have     *)
(* several chunks.                                                         *)
(***************************************************************************)
SendOutcomes == {"ok", "errcode", "exception"}
SendProjectNames == {NoName, <<"p", "1">>}

\* Lines 179-186: the reply is split; nothing is sent yet.  A call keeps
\* nothing from earlier calls, so a behaviour follows one call.
SendStart(message, project_name, max_bytes) ==
    /\ sres = NoResult
    /\ sres' = [op |-> "send", pc |-> "loop",
                split_messages |->
                    split_and_format_message(message, ShortIdOf(Sid1),
                                             project_name, max_bytes),
                next |-> 1, calls |-> <<>>,
                success |-> FALSE, parts_sent |-> -1]
    /\ UNCHANGED <<now, locks, acqLog, sessions, sessClock, dedup, req,
                   projects, pres, chatbots, txn>>

\* One pass of the loop at lines 189-205, or the handler at 209-211 when
\* the call raises; after the last chunk, the return at line 207.
SendPart(outcome) ==
    /\ sres.op = "send" /\ sres.pc = "loop"
    /\ LET split_msg == sres.split_messages[sres.next]
           sent == [sres EXCEPT !.calls = Append(@, split_msg.content)]
       IN sres' =
            IF outcome = "exception"
            THEN [sent EXCEPT !.pc = "done", !.success = FALSE,
                              !.parts_sent = 0]
            ELSE IF outcome = "errcode"
            THEN [sent EXCEPT !.pc = "done", !.success = FALSE,
                              !.parts_sent = split_msg.part_number - 1]
            ELSE IF sres.next = Len(sres.split_messages)
            THEN [sent EXCEPT !.pc = "done", !.success = TRUE,
                              !.parts_sent = Len(sres.split_messages)]
            ELSE [sent EXCEPT !.next = @ + 1]
    /\ UNCHANGED <<now, locks, acqLog, sessions, sessClock, dedup, req,
                   projects, pres, chatbots, txn>>

NextSend ==
    \/ \E message \in ReplyTexts, project_name \in SendProjectNames,
          max_bytes \in SplitLimits :
            SendStart(message, project_name, max_bytes)
    \/ \E outcome \in SendOutcomes : SendPart(outcome)

SpecSend == InitCommon /\ [][NextSend]_vars

(***************************************************************************)
(* C28: the chunks are sent one call per chunk in ascending part order;    *)
(* when the send of chunk k fails no later chunk is sent, and the result   *)
(* reports failure with k - 1 parts sent, the number that succeeded.       *)
(***************************************************************************)
C28_OrderedSendStopsAtFailure ==
    sres.op = "send" =>
        /\ Len(sres.calls) <= Len(sres.split_messages)
        /\ \A j \in DOMAIN sres.calls :
              sres.calls[j] = sres.split_messages[j].content
        /\ (sres.pc = "done" /\ sres.success) =>
              /\ Len(sres.calls) = Len(sres.split_messages)
              /\ sres.parts_sent = Len(sres.split_messages)
        /\ (sres.pc = "done" /\ ~sres.success) =>
              sres.parts_sent = Len(sres.calls) - 1

(***************************************************************************)
(* SpecAdd: the /add-project command over the project table.  The command  *)
(* looks the project id up, tests the agent's connectivity and creates the *)
(* row in one database transaction; the outcome of the test is "success",  *)
(* "failure" (nothing saved) or "tunnel_error" (a connected tunnel whose   *)
(* agent answered with an error: saved with a warning).                    *)
(***************************************************************************)
ConnectivityResults == {"success", "failure", "tunnel_error"}

\* project_commands.handle_add_project, for a well-formed command.
handle_add_project(P, bot_key, chat_id, project_id, test_result, at) ==
    IF get_by_project_id(P, bot_key, chat_id, project_id) # 0
    THEN [ok |-> FALSE, projects |-> P]
    ELSE IF test_result = "failure"
    THEN [ok |-> FALSE, projects |-> P]
    ELSE create(P, bot_key, chat_id, project_id, FALSE, TRUE, at)

PAddProject(b, c, pid, test_result) ==
    /\ Len(projects) < MaxProjects
    /\ LET res == handle_add_project(projects, b, c, pid, test_result, now)
       IN /\ projects' = res.projects
          /\ pres' = [op |-> "add_project", ret |-> res.ok]
    /\ UNCHANGED <<now, locks, acqLog, sessions, sessClock, sres, dedup, req, chatbots, txn>>

NextAdd ==
    \/ NextProj
    \/ \E k \in ProjectKeys, test_result \in ConnectivityResults :
          PAddProject(k[1], k[2], k[3], test_result)

SpecAdd == InitCommon /\ [][NextAdd]_vars

(***************************************************************************)
(* C30: when /add-project adds the first project of a (bot, chat) the new  *)
(* project is made the default; when the (bot, chat) already has projects  *)
(* the new one is not the default and the default stays the one it was.    *)
(***************************************************************************)
C30_FirstProjectAutoDefault ==
    [][\A k \in ProjectKeys, test_result \in ConnectivityResults :
          (PAddProject(k[1], k[2], k[3], test_result) /\ pres'.ret) =>
              LET new == Len(projects')
              IN IF GroupRows(projects, k[1], k[2]) = {}
                 THEN projects'[new].is_default
                 ELSE /\ ~projects'[new].is_default
                      /\ DefaultRows(projects', k[1], k[2])
                            = DefaultRows(projects, k[1], k[2])]_vars

(***************************************************************************)
(* SpecAccess: handle_callback with the bot lookup and access control of   *)
(* lines 182-270 computed from the bot table.  A bot is a BotConfig:       *)
(* owner_id is None for an unregistered bot, target_url is NoId for a bot  *)
(* without a forward target.  NoBot stands for None.                       *)
(***************************************************************************)
TheAlias == "al"
NoBot ==
    [bot_key |-> "", enabled |-> FALSE, owner_id |-> None,
     access_control |-> [mode |-> "allow_all", whitelist |-> {}, blacklist |-> {}],
     target_url |-> NoId]

BotConfig(bot_key, enabled, owner_id, mode, whitelist, blacklist, target_url) ==
    [bot_key |-> bot_key, enabled |-> enabled, owner_id |-> owner_id,
     access_control |-> [mode |-> mode, whitelist |-> whitelist,
                         blacklist |-> blacklist],
     target_url |-> target_url]

is_registered(bot) == bot.owner_id # None
is_configured(bot) == bot.target_url # NoId

\* AccessControl.check_access
AccessControl_check_access(ac, user_id, chat_id, alias) ==
    LET listed(l) == \/ user_id \in l
                     \/ chat_id # "" /\ chat_id \in l
                     \/ alias # "" /\ alias \in l
    IN IF ac.mode = "allow_all" THEN [allowed |-> TRUE, reason |-> ""]
       ELSE IF ac.mode = "whitelist"
       THEN IF listed(ac.whitelist) THEN [allowed |-> TRUE, reason |-> ""]
            ELSE [allowed |-> FALSE, reason |-> "no_permission"]
       ELSE IF ac.mode = "blacklist"
       THEN IF listed(ac.blacklist)
            THEN [allowed |-> FALSE, reason |-> "no_permission"]
            ELSE [allowed |-> TRUE, reason |-> ""]
       ELSE [allowed |-> FALSE, reason |-> "unknown_mode"]

\* ConfigDB.check_access
check_access(bot, user_id, chat_id, alias) ==
    IF ~bot.enabled THEN [allowed |-> FALSE, reason |-> "disabled"]
    ELSE AccessControl_check_access(bot.access_control, user_id, chat_id, alias)

\* ConfigDB.get_bot
get_bot(cfg, bot_key) ==
    IF \E b \in cfg.bots : b.bot_key = bot_key
    THEN CHOOSE b \in cfg.bots : b.bot_key = bot_key
    ELSE NoBot

\* handle_callback lines 182-222: the bot of the webhook's key; an unknown
\* key gets a skeleton bot, disabled, without owner and target; without a
\* key the default bot.
lookup_bot(cfg) ==
    LET skeleton == BotConfig(cfg.bot_key, FALSE, None, "allow_all", {}, {}, NoId)
        bot == IF cfg.bot_key = "" THEN NoBot
               ELSE IF get_bot(cfg, cfg.bot_key) # NoBot
               THEN get_bot(cfg, cfg.bot_key)
               ELSE skeleton
    IN IF bot # NoBot THEN bot
       ELSE IF cfg.default_bot_key # "" THEN get_bot(cfg, cfg.default_bot_key)
       ELSE NoBot

\* handle_callback lines 225-270 with the fallback taken unchecked.
access_gate_unchecked_fallback(cfg, bot, user_id, chat_id, alias) ==
    LET first == IF ~is_registered(bot) THEN [allowed |-> TRUE, reason |-> ""]
                 ELSE check_access(bot, user_id, chat_id, alias)
        default_bot == get_bot(cfg, cfg.default_bot_key)
    IN IF first.allowed THEN [allowed |-> TRUE, bot |-> bot]
       ELSE IF bot.bot_key # cfg.default_bot_key /\ default_bot # NoBot
       THEN [allowed |-> TRUE, bot |-> default_bot]
       ELSE [allowed |-> FALSE, bot |-> bot]

\* handle_callback lines 225-270: access control, with the fallback to the
\* default bot.
access_gate(cfg, bot, user_id, chat_id, alias) ==
    LET first == IF ~is_registered(bot) THEN [allowed |-> TRUE, reason |-> ""]
                 ELSE check_access(bot, user_id, chat_id, alias)
        default_bot == get_bot(cfg, cfg.default_bot_key)
    IN IF first.allowed THEN [allowed |-> TRUE, bot |-> bot]
       ELSE IF bot.bot_key # cfg.default_bot_key
       THEN IF default_bot # NoBot
            THEN IF check_access(default_bot, user_id, chat_id, alias).allowed
                 THEN [allowed |-> TRUE, bot |-> default_bot]
                 ELSE [allowed |-> FALSE, bot |-> default_bot]
            ELSE [allowed |-> FALSE, bot |-> bot]
       ELSE [allowed |-> FALSE, bot |-> bot]

\* Bot tables.  TheBot is the default bot and the one whose sessions and
\* locks the handler's later steps use; the second bot "b2" is unknown,
\* or registered and closed to the user, so that a message addressed to
\* it is forwarded, if at all, under TheBot.
Url == <<"u">>
TheBotConfigs ==
    {BotConfig(TheBot, TRUE, "o1", "allow_all", {}, {}, Url),
     BotConfig(TheBot, FALSE, "o1", "allow_all", {}, {}, Url),
     BotConfig(TheBot, TRUE, "o1", "whitelist", {TheAlias}, {}, Url),
     BotConfig(TheBot, TRUE, "o1", "whitelist", {"u9"}, {}, NoId),
     BotConfig(TheBot, TRUE, "o1", "blacklist", {}, {TheChat}, Url),
     BotConfig(TheBot, TRUE, "o1", "blacklist", {}, {"u9"}, Url),
     BotConfig(TheBot, TRUE, "o1", "open", {}, {}, Url),
     BotConfig(TheBot, FALSE, None, "allow_all", {}, {}, Url),
     BotConfig(TheBot, TRUE, None, "blacklist", {}, {TheUser}, NoId)}
OtherBotConfigs ==
    {BotConfig("b2", FALSE, "o2", "allow_all", {}, {}, Url),
     BotConfig("b2", TRUE, "o2", "whitelist", {}, {}, Url)}

FallbackBotConfigs ==
    {BotConfig(TheBot, TRUE, "o1", "allow_all", {}, {}, Url),
     BotConfig(TheBot, FALSE, "o1", "allow_all", {}, {}, Url),
     BotConfig(TheBot, TRUE, None, "blacklist", {}, {TheUser}, NoId)}

AccessCfgs ==
    {[bot_key |-> TheBot, bots |-> {b}, default_bot_key |-> TheBot] :
        b \in TheBotConfigs}
    \cup {[bot_key |-> "b2", bots |-> {o, b}, default_bot_key |-> TheBot] :
            o \in OtherBotConfigs, b \in FallbackBotConfigs}
    \cup {[bot_key |-> "b2", bots |-> {o}, default_bot_key |-> ""] :
            o \in OtherBotConfigs}
    \cup {[bot_key |-> "b2", bots |-> {}, default_bot_key |-> ""],
          [bot_key |-> "", bots |-> {}, default_bot_key |-> ""]}

\* Payloads of SpecAccess: a plain message, /r, "/bot info" and "/lp".
AccessPayloads ==
    {[kind |-> k, arg |-> NoId] :
        k \in {"plain", "reset", "bot_command", "project_command"}}

\* handle_callback lines 139-533 under the bot table cfg.
AReceive(r, cfg) ==
    /\ req[r].pc = "idle"
    /\ \A q \in Reqs : q < r => req[q].pc # "idle"
    /\ \E d \in Deliveries(r, AccessPayloads) :
         LET bot == lookup_bot(cfg)
             gate == access_gate(cfg, bot, TheUser, TheChat, TheAlias)
             rec == [IdleReq EXCEPT !.msg_id = d.msg_id, !.kind = d.kind,
                                    !.arg = d.arg, !.at = now]
         IN IF bot = NoBot THEN HandleDelivery(r, d, "no_bot")
            ELSE IF ~gate.allowed THEN HandleDelivery(r, d, "denied")
            ELSE IF d.kind = "bot_command" THEN HandleDelivery(r, d, "ok")
            ELSE IF ~is_configured(gate.bot) /\ ~is_registered(gate.bot)
            THEN \* lines 299-307: the registration help
                 /\ req' = [req EXCEPT ![r] = Finish(rec, "register_help", 1)]
                 /\ UNCHANGED <<sessions, sessClock, dedup>>
            ELSE HandleDelivery(r, d, "ok")
    /\ UNCHANGED <<now, locks, acqLog, sres, projects, pres, chatbots, txn>>

\* The handler's steps that can follow AReceive from InitAccess: no request
\* waits in "active", and no lock grows older than the timeout within the
\* sampled instants, so the force-release path and the start-up cleanup
\* have nothing to act on.
NextAccess ==
    \/ \E r \in Reqs, cfg \in AccessCfgs : AReceive(r, cfg)
    \/ \E r \in Reqs : TryAcquire(r)
    \/ \E r \in Reqs : LockInfo(r)
    \/ \E r \in Reqs : AgentReturn(r)
    \/ \E r \in Reqs : Record(r)
    \/ Tick

\* The service starts with the user's two earlier conversations, so that
\* a command has session state to change, and without a left-over lock.
InitAccess ==
    /\ Init
    /\ sessions # <<>>
    /\ \A k \in Keys : locks[k] = NoLock

SpecAccess == InitAccess /\ [][NextAccess]_vars

\* check_access denies the user the bot the message is addressed to, and
\* no other default bot admits the user.
DeniedByBots(cfg) ==
    LET bot == lookup_bot(cfg)
        default_bot == get_bot(cfg, cfg.default_bot_key)
    IN /\ bot # NoBot
       /\ ~check_access(bot, TheUser, TheChat, TheAlias).allowed
       /\ \/ bot.bot_key = cfg.default_bot_key
          \/ default_bot = NoBot
          \/ ~check_access(default_bot, TheUser, TheChat, TheAlias).allowed

\* Request r ends in this step with the deny reply and nothing else: no
\* command outcome, no forward, and the stores as they were.
OnlyDenyReply(r) ==
    /\ req'[r].pc = "done"
    /\ req'[r].outcome = "access_denied"
    /\ req'[r].replies = 1
    /\ req'[r].forwards = 0
    /\ sessions' = sessions /\ sessClock' = sessClock
    /\ locks' = locks /\ dedup' = dedup /\ projects' = projects

ChatbotRow(id, bot_key, name, target_url, enabled, owner_id) ==
    [id |-> id, bot_key |-> bot_key, name |-> name, target_url |-> target_url,
     url_template |-> target_url, enabled |-> enabled, owner_id |-> owner_id]

\* ChatbotRepository.get_by_bot_key: the index of the row, 0 for None.
get_by_bot_key(T, bot_key) ==
    IF \E i \in 1..Len(T) : T[i].bot_key = bot_key
    THEN CHOOSE i \in 1..Len(T) : T[i].bot_key = bot_key
    ELSE 0

\* ChatbotRepository.update as handle_register calls it: the UPDATE names
\* the row by its id alone.
ChatbotRepository_update(T, bot_id, name, target_url, url_template, enabled, owner_id) ==
    [i \in 1..Len(T) |->
        IF T[i].id = bot_id
        THEN [T[i] EXCEPT !.name = name, !.target_url = target_url,
                          !.url_template = url_template,
                          !.enabled = enabled, !.owner_id = owner_id]
        ELSE T[i]]

\* REGISTER_RE: "/register", a name, and a URL that starts with http:// or
\* https://.  A message is the sequence of its blank-separated words.
HttpUrls == {"http://a", "https://b"}
REGISTER_RE(message) ==
    /\ Len(message) >= 3
    /\ message[1] = "/register"
    /\ message[3] \in HttpUrls

\* Truthiness of bot.owner_id.
HasOwner(bot) == bot.owner_id # None /\ bot.owner_id # ""

RegisterUsers == {"u1", "u2"}
RegisterMessages ==
    {<<"/register", "n1", "http://a">>, <<"/register", "n2", "https://b">>,
     <<"/register", "n1">>}

IdleTxn == [pc |-> "idle"]

RegisterTables ==
    {<<>>,
     <<ChatbotRow(1, TheBot, "auto", "", FALSE, None)>>,
     <<ChatbotRow(1, TheBot, "n0", "http://o", TRUE, "u0")>>}

InitRegister ==
    /\ now = 0
    /\ locks = [k \in Keys |-> NoLock]
    /\ acqLog = [k \in Keys |-> <<>>]
    /\ sessions = <<>>
    /\ sessClock = 0
    /\ sres = NoResult
    /\ dedup = {}
    /\ req = [r \in Reqs |-> IdleReq]
    /\ projects = <<>>
    /\ pres = NoResult
    /\ chatbots \in RegisterTables
    /\ txn = [r \in Reqs |-> IdleTxn]

\* handle_register up to the await of repo.update: the regular expression,
\* the read of the bot row and the two early returns.
RegisterRead(r, message, from_user_id) ==
    /\ txn[r].pc = "idle"
    /\ LET bot == get_by_bot_key(chatbots, TheBot)
       IN txn' = [txn EXCEPT ![r] =
             IF ~REGISTER_RE(message)
             THEN [pc |-> "done", from_user_id |-> from_user_id,
                   success |-> FALSE, reply |-> "usage", had_owner |-> FALSE]
             ELSE IF bot = 0
             THEN [pc |-> "done", from_user_id |-> from_user_id,
                   success |-> FALSE, reply |-> "no_bot", had_owner |-> FALSE]
             ELSE IF HasOwner(chatbots[bot])
             THEN [pc |-> "done", from_user_id |-> from_user_id,
                   success |-> FALSE, reply |-> "already_registered",
                   had_owner |-> TRUE]
             ELSE [pc |-> "update", from_user_id |-> from_user_id,
                   bot_id |-> chatbots[bot].id, bot_name |-> message[2],
                   target_url |-> message[3]]]
    /\ UNCHANGED <<now, locks, acqLog, sessions, sessClock, sres, dedup, req,
                   projects, pres, chatbots>>

\* The rest of handle_register: repo.update, session.commit and the
\* success reply.
RegisterUpdate(r) ==
    /\ txn[r].pc = "update"
    /\ chatbots' = ChatbotRepository_update(chatbots, txn[r].bot_id,
                       txn[r].bot_name, txn[r].target_url, txn[r].target_url,
                       TRUE, txn[r].from_user_id)
    /\ txn' = [txn EXCEPT ![r] =
                 [pc |-> "done", from_user_id |-> txn[r].from_user_id,
                  success |-> TRUE, reply |-> "registered",
                  had_owner |-> HasOwner(chatbots[get_by_bot_key(chatbots, TheBot)])]]
    /\ UNCHANGED <<now, locks, acqLog, sessions, sessClock, sres, dedup, req,
                   projects, pres>>

NextRegister ==
    \/ \E r \in Reqs, message \in RegisterMessages, u \in RegisterUsers :
          RegisterRead(r, message, u)
    \/ \E r \in Reqs : RegisterUpdate(r)

SpecRegister == InitRegister /\ [][NextRegister]_vars

(***************************************************************************)
(* C31: once the bot has an owner, no /register changes its owner, name or *)
(* URL, and none reports success; the owner is set at most once, also when *)
(* two /register commands are handled concurrently.                        *)
(***************************************************************************)
C31_OwnerSetAtMostOnce ==
    [][\A i \in 1..Len(chatbots) :
          HasOwner(chatbots[i])
              => /\ chatbots'[i] = chatbots[i]
                 /\ \A r \in Reqs :
                       (txn[r].pc # "done" /\ txn'[r].pc = "done")
                           => ~txn'[r].success]_vars

\* The part of C31 that the code keeps: a /register that starts when the
\* bot has an owner is rejected and changes nothing.
C31_LaterRegisterRejected ==
    [][\A r \in Reqs, message \in RegisterMessages, u \in RegisterUsers :
          (/\ get_by_bot_key(chatbots, TheBot) # 0
           /\ HasOwner(chatbots[get_by_bot_key(chatbots, TheBot)])
           /\ RegisterRead(r, message, u))
              => /\ txn'[r].pc = "done" /\ ~txn'[r].success
                 /\ chatbots' = chatbots]_vars

(***************************************************************************)
(* C32: the release in the finally block of a request deletes only the     *)
(* lock row that this request inserted: a row that another request holds   *)
(* for the same key stays in the table.                                    *)
(***************************************************************************)
C32_ReleaseOnlyOwnLock ==
    [][\A r \in Reqs :
          (req[r].pc = "inflight" /\ AgentReturn(r))
              => \A k \in Keys :
                    (locks[k] # NoLock /\ locks[k].owner # r)
                        => locks'[k] = locks[k]]_vars

(***************************************************************************)
(* C33: the force-release of a request's staleness path deletes no lock    *)
(* that is younger than the staleness threshold, such as one acquired for  *)
(* the key after the request checked the age of the old row.               *)
(***************************************************************************)
C33_ForceReleaseOnlyCheckedLock ==
    [][\A r \in Reqs :
          (req[r].pc = "force" /\ ForceRelease(r))
              => \A k \in Keys :
                    (/\ locks[k] # NoLock
                     /\ ~IsStale(_compute_elapsed_seconds(locks[k].started_at, now)))
                        => locks'[k] = locks[k]]_vars

(***************************************************************************)
(* C34: a delivery that handle_callback drops as a duplicate leaves the    *)
(* session store as it was: the same rows with the same fields, the same   *)
(* active session.                                                         *)
(***************************************************************************)
C34_DuplicateLeavesSessions ==
    [][\A r \in Reqs :
          (/\ req[r].pc = "idle"
           /\ req'[r].pc = "done"
           /\ req'[r].outcome = "duplicate")
              => sessions' = sessions]_vars

(***************************************************************************)
(* SpecRecord: record_session calls of concurrent handlers.  The call      *)
(* runs after the finally block has released the processing lock, so the   *)
(* handler of the next message can reach it while this one is still in it. *)
(* Each call has its own database session: the SELECT is one step, and the *)
(* flush and commit of what the call then writes is another.  txn[r] holds *)
(* the call's local variables between the two.                             *)
(***************************************************************************)
InitRecord ==
    /\ now = 0
    /\ locks = [k \in Keys |-> NoLock]
    /\ acqLog = [k \in Keys |-> <<>>]
    /\ sessions \in InitTables
    /\ sessClock = 2
    /\ sres = NoResult
    /\ dedup = {}
    /\ req = [r \in Reqs |-> IdleReq]
    /\ projects = <<>>
    /\ pres = NoResult
    /\ chatbots = <<>>
    /\ txn = [r \in Reqs |-> IdleTxn]

\* record_session lines 95-110: the SELECT by (user, chat, bot, session
\* id).  scalar_one_or_none raises MultipleResultsFound on two rows;
\* otherwise the ORM object, if any, keeps the column values as loaded.
RecordSelect(r, session_id) ==
    /\ txn[r].pc = "idle"
    /\ LET found == {i \in MatchRows(sessions, EffUser, TheChat, TheBot) :
                         sessions[i].session_id = session_id}
       IN txn' = [txn EXCEPT ![r] =
             IF Cardinality(found) > 1
             THEN [pc |-> "done", session_id |-> session_id, ret |-> -1]
             ELSE IF found # {}
             THEN [pc |-> "existing", session_id |-> session_id,
                   row |-> CHOOSE i \in found : TRUE,
                   message_count |-> sessions[CHOOSE i \in found : TRUE].message_count]
             ELSE [pc |-> "new", session_id |-> session_id]]
    /\ UNCHANGED <<now, locks, acqLog, sessions, sessClock, sres, dedup, req,
                   projects, pres, chatbots>>

\* record_session lines 112-119: existing.message_count += 1 is computed
\* from the loaded value; commit flushes UPDATE ... SET message_count =
\* <that value>, last_message, is_active, updated_at WHERE id = <row>.
RecordUpdate(r) ==
    /\ txn[r].pc = "existing"
    /\ sessions' = [sessions EXCEPT ![txn[r].row] =
           [@ EXCEPT !.last_message = truncated_message(TheContent),
                     !.message_count = txn[r].message_count + 1,
                     !.is_active = TRUE,
                     !.updated_at = sessClock + 1]]
    /\ sessClock' = sessClock + 1
    /\ txn' = [txn EXCEPT ![r] =
                 [pc |-> "done", session_id |-> txn[r].session_id,
                  ret |-> txn[r].row]]
    /\ UNCHANGED <<now, locks, acqLog, sres, dedup, req, projects, pres,
                   chatbots>>

\* record_session lines 120-147: deactivate the triple's active rows,
\* INSERT the new row, commit.
RecordInsert(r) ==
    /\ txn[r].pc = "new"
    /\ sessions' = Append(
           Deactivate(sessions, ActiveRows(sessions, EffUser, TheChat, TheBot),
                      sessClock + 1),
           [user_id |-> EffUser, chat_id |-> TheChat, bot_key |-> TheBot,
            session_id |-> txn[r].session_id,
            short_id |-> ShortIdOf(txn[r].session_id),
            last_message |-> truncated_message(TheContent),
            message_count |-> 1, is_active |-> TRUE,
            updated_at |-> sessClock + 1])
    /\ sessClock' = sessClock + 1
    /\ txn' = [txn EXCEPT ![r] =
                 [pc |-> "done", session_id |-> txn[r].session_id,
                  ret |-> Len(sessions) + 1]]
    /\ UNCHANGED <<now, locks, acqLog, sres, dedup, req, projects, pres,
                   chatbots>>

NextRecord ==
    \/ \E r \in Reqs, session_id \in AllSessionIds : RecordSelect(r, session_id)
    \/ \E r \in Reqs : RecordUpdate(r)
    \/ \E r \in Reqs : RecordInsert(r)

SpecRecord == InitRecord /\ [][NextRecord]_vars

(***************************************************************************)
(* C35: the session store holds at most one row for a (user, chat, bot)    *)
(* triple and agent session id, also when two handlers record the same     *)
(* not-yet-seen id concurrently.                                           *)
(***************************************************************************)
C35_OneRowPerSessionId ==
    \A i, j \in DOMAIN sessions :
        (/\ sessions[i].user_id = sessions[j].user_id
         /\ sessions[i].chat_id = sessions[j].chat_id
         /\ sessions[i].bot_key = sessions[j].bot_key
         /\ sessions[i].session_id = sessions[j].session_id) => i = j

(***************************************************************************)
(* C36: every record call that completes for an existing session raises    *)
(* the row's message_count by one, so the count equals the number of       *)
(* completed calls and concurrent calls lose no increment.                 *)
(***************************************************************************)
C36_NoLostIncrement ==
    [][\A r \in Reqs :
          (txn[r].pc = "existing" /\ RecordUpdate(r))
              => sessions'[txn[r].row].message_count
                     = sessions[txn[r].row].message_count + 1]_vars

(***************************************************************************)
(* SpecFail: messages that are forwarded, with what each request wrote to  *)
(* the session store before its agent call kept in txn[r].switched.        *)
(***************************************************************************)
FailPayloads ==
    {[kind |-> k, arg |-> NoId] : k \in {"plain", "reset"}}
        \cup {[kind |-> "quoted", arg |-> a] : a \in HandlerQuotedParts}

InitFail ==
    /\ now = 0
    /\ sessions \in InitTables
    /\ locks = [k \in Keys |-> NoLock]
    /\ acqLog = [k \in Keys |-> <<>>]
    /\ sessClock = 2
    /\ sres = NoResult
    /\ dedup = {}
    /\ req = [r \in Reqs |-> IdleReq]
    /\ projects = <<>>
    /\ pres = NoResult
    /\ chatbots = <<>>
    /\ txn = [r \in Reqs |-> [switched |-> FALSE]]

\* handle_callback lines 139-533 for a bot that passes lookup and access
\* control.
FReceive(r) ==
    /\ req[r].pc = "idle"
    /\ \A q \in Reqs : q < r => req[q].pc # "idle"
    /\ \E d \in Deliveries(r, FailPayloads) : HandleDelivery(r, d, "ok")
    /\ txn' = [txn EXCEPT ![r] = [switched |-> sessions' # sessions]]
    /\ UNCHANGED <<now, locks, acqLog, sres, projects, pres, chatbots>>

NextFail ==
    \/ \E r \in Reqs : FReceive(r)
    \/ \E r \in Reqs : Active(r)
    \/ \E r \in Reqs : TryAcquire(r)
    \/ \E r \in Reqs : LockInfo(r)
    \/ \E r \in Reqs : AgentReturn(r)
    \/ \E r \in Reqs : Record(r)
    \/ Tick

SpecFail == InitFail /\ [][NextFail]_vars

\* The agent call of request r has failed: forward_to_agent_with_user_project
\* returned the error result for a timeout, a transport error or a status
\* other than 200.
AgentCallFailed(rec) == rec.pc = "done" /\ rec.outcome = "agent_error"

(***************************************************************************)
(* C37 as stated: a request whose agent call fails has made no change to   *)
(* the session store: it created, activated, deactivated and updated no    *)
(* session.                                                                *)
(***************************************************************************)
C37_FailedRequestWroteNothing ==
    \A r \in Reqs : AgentCallFailed(req[r]) => ~txn[r].switched

(***************************************************************************)
(* C37, amended: when the agent call fails, the request changes nothing in *)
(* the session store from the call onward and ends with the error reply;   *)
(* a session switch it made before forwarding stays.                       *)
(***************************************************************************)
C37_NoStoreChangeAfterFailedCall ==
    [][\A r \in Reqs :
          (/\ req[r].pc = "inflight"
           /\ AgentCallFailed(req'[r])
           /\ AgentReturn(r))
              => /\ sessions' = sessions
                 /\ sessClock' = sessClock
                 /\ req'[r].replies = req[r].replies + 1]_vars

\* The agent call of a quoted reply has failed after the request switched
\* the active session.
C37_Witness ==
    \E r \in Reqs :
        /\ AgentCallFailed(req[r])
        /\ req[r].kind = "quoted"
        /\ req[r].forwards = 1
        /\ txn[r].switched

(***************************************************************************)
(* C38: set_default for a project_id that (bot_key, chat_id) does not have *)
(* returns false and leaves the default project of that (bot_key, chat_id) *)
(* as it was.                                                              *)
(***************************************************************************)
C38_UnknownProjectKeepsDefault ==
    [][\A k \in ProjectKeys :
          (/\ get_by_project_id(projects, k[1], k[2], k[3]) = 0
           /\ PSetDefault(k[1], k[2], k[3]))
              => /\ pres'.ret = FALSE
                 /\ DefaultRows(projects', k[1], k[2])
                        = DefaultRows(projects, k[1], k[2])]_vars

(***************************************************************************)
(* SpecDedup: the dedup check of handle_callback for the messages of one   *)
(* group chat.  txn.sent[n] is the n-th message the users sent, with the   *)
(* platform's message id when the payload carries one; the platform may    *)
(* deliver each message any number of times.  txn.accepted is the set of   *)
(* messages that passed the check, and sres tells how the last delivery    *)
(* came out.                                                               *)
(***************************************************************************)
MaxMsgs == 2

DedupUsers == {"u1", "u2"}
DedupContents == {<<"o", "k">>, <<"o", "k", " ">>, <<"h", "i">>}
DedupChat == "g1"

SentMessages ==
    [user : DedupUsers, content : DedupContents, has_id : BOOLEAN]

\* data.get("msgid") or data.get("msg_id") or data.get("message_id")
PlatformMsgId(n) ==
    IF txn.sent[n].has_id THEN <<"m", n>> ELSE NoId

InitDedup ==
    /\ now = 0
    /\ locks = [k \in Keys |-> NoLock]
    /\ acqLog = [k \in Keys |-> <<>>]
    /\ sessions = <<>>
    /\ sessClock = 0
    /\ sres = NoResult
    /\ dedup = {}
    /\ req = [r \in Reqs |-> IdleReq]
    /\ projects = <<>>
    /\ pres = NoResult
    /\ chatbots = <<>>
    /\ \E sent \in [1..MaxMsgs -> SentMessages] :
          txn = [sent |-> sent, accepted |-> {}]

\* handle_callback lines 528-533 for a delivery of message n: the key is
\* made from the bot, the chat, the content and the payload; a duplicate
\* is dropped, any other delivery is marked and goes on.
Deliver(n) ==
    LET dkey == _make_dedup_key(TheBot, DedupChat, strip(txn.sent[n].content),
                                PlatformMsgId(n))
        chk == _is_duplicate_message(dedup, dkey, now)
    IN /\ IF chk.dup
          THEN /\ dedup' = chk.cache
               /\ txn' = txn
          ELSE /\ dedup' = _mark_message_processed(chk.cache, dkey, now)
               /\ txn' = [txn EXCEPT !.accepted = @ \cup {n}]
       /\ sres' = [op |-> "deliver", no |-> n, dropped |-> chk.dup]
       /\ UNCHANGED <<now, locks, acqLog, sessions, sessClock, req, projects,
                      pres, chatbots>>

NextDedup ==
    \/ \E n \in 1..MaxMsgs : Deliver(n)
    \/ Tick

SpecDedup == InitDedup /\ [][NextDedup]_vars

(***************************************************************************)
(* C39: a delivery is dropped as a duplicate only when it re-delivers a    *)
(* message that was accepted before; two distinct user messages, of two    *)
(* users of the chat or of one user, are never duplicates of each other.   *)
(***************************************************************************)
C39_DroppedOnlyRedelivery ==
    (sres.op = "deliver" /\ sres.dropped) => sres.no \in txn.accepted

\* The part of C39 that the code keeps: with a platform message id the
\* dropped delivery is a re-delivery.
C39_WithMsgIdDroppedOnlyRedelivery ==
    (sres.op = "deliver" /\ sres.dropped /\ txn.sent[sres.no].has_id)
        => sres.no \in txn.accepted

====
